---- MODULE Spec2Model ----
(***************************************************************************)
(* medialib_db: the tag graph (tags_indexer.py), content tagging           *)
(* (__init__.py) and the tag-query compiler (files_by_tag_search.py),      *)
(* over a relational store shared by several connections.                  *)
(*                                                                         *)
(* Strings are tuples of characters, so that str.replace and str.format    *)
(* are computed and not assumed.  A table is a set of rows.  Every         *)
(* connection has a set of uncommitted row writes (tx) laid over the       *)
(* committed tables; commit publishes them, rollback drops them.           *)
(***************************************************************************)
EXTENDS Integers, Sequences, FiniteSets, TLC

\* ------------------------------------------------------------------ bounds
\* groups in one search request
MaxGroups == 2
\* the largest LIMIT and the largest OFFSET of a paginated search
MaxLimit == 3
MaxOffset == 2
\* insert_new_tag calls in one behaviour, over both connections
MaxCalls == 2
\* content rows in the stores on which merge_tags is run
MaxMergeContent == 2
\* tag references in one search request, over all its groups
MaxRefs == 3

VARIABLES
    tag,                \* committed rows of table tag: [id, title, category, parent]
    tag_alias,          \* committed rows of table tag_alias: [tag_id, title]
    content_tags_list,  \* committed rows of table content_tags_list: [content_id, tag_id]
    content,            \* committed rows of table content: [id, hidden, addition_date]
    tx,                 \* per connection: its uncommitted row writes
    pc,                 \* per connection: where its running function stands
    frame,              \* per connection: the running function's arguments and locals
    pre,                \* the committed tables when the function under study was called
    observed,           \* the committed tables as another connection last read them
    tag_id_seq,         \* the next value of tag.id's DEFAULT sequence
    results,            \* the insert_new_tag calls that ended: arguments and outcome
    groups,             \* the tag groups a caller hands to a search function
    reply               \* what the search function did: statement, parameters, outcome

store == <<tag, tag_alias, content_tags_list>>
registry == <<tag_id_seq, results>>
vars == <<tag, tag_alias, content_tags_list, content, tx, pc, frame, pre, observed,
          tag_id_seq, results, groups, reply>>

\* the connections (sessions) that share the database
Connections == {1, 2}

\* SQL NULL / Python None for an integer column or value
NULL == 0 - 1

\* ----------------------------------------------------------------- strings
RECURSIVE replace(_, _, _)
\* str.replace(old, new) for a one-character old and new
replace(str, old, new) ==
    IF str = <<>> THEN <<>>
    ELSE <<(IF Head(str) = old THEN new ELSE Head(str))>> \o replace(Tail(str), old, new)

\* `old in str` for a one-character old
contains(str, old) == \E i \in 1..Len(str) : str[i] = old

RECURSIVE SortedSeq(_)
\* the elements of a finite set of integers, ascending
SortedSeq(S) ==
    IF S = {} THEN <<>>
    ELSE LET m == CHOOSE x \in S : \A y \in S : x <= y
         IN <<m>> \o SortedSeq(S \ {m})

\* ------------------------------------------------------- the store (reads)
\* The schema and the stored functions get_tags_ids / get_parent_tag_ids are
\* not among the source files; they follow the data model's description.

RECURSIVE descendants(_, _)
\* ids reachable from the ids S by following parent edges backward
descendants(T, S) ==
    LET more == {r.id : r \in {x \in T : x.parent \in S}}
    IN IF more \subseteq S THEN S ELSE descendants(T, S \cup more)

\* SELECT * FROM get_tags_ids(label): tags whose title or alias is label
get_tags_ids(T, A, label) ==
    {r.id : r \in {x \in T : x.title = label}}
        \cup {a.tag_id : a \in {x \in A : x.title = label}}

\* SELECT * FROM get_parent_tag_ids(id): the tag and all its descendants
get_parent_tag_ids(T, id) == descendants(T, {id})

\* SELECT content_id FROM content_tags_list WHERE tag_id IN ids
content_ids_of(L, ids) == {l.content_id : l \in {x \in L : x.tag_id \in ids}}

\* ------------------------------------------------ files_by_tag_search.py
\* A tag reference of a group: a str or an int
StrRef(label) == [kind |-> "str", s |-> label, n |-> 0]
IntRef(id) == [kind |-> "int", s |-> <<>>, n |-> id]
\* a reference that is neither: None, a float, a bool, a tuple
OtherRef == [kind |-> "other", s |-> <<>>, n |-> 0]

\* A piece of SQL text; Num is an integer rendered by str.format
Tok(s) == [s |-> s, n |-> 0]
Num(n) == [s |-> "<int>", n |-> n]

ordering_constants ==
    [DATE_DECREASING |-> "addition_date DESC",
     DATE_INCREASING |-> "addition_date",
     RANDOM |-> "RANDOM()"]

ORDERING_BY == {"DATE_DECREASING", "DATE_INCREASING", "NONE", "RANDOM"}

\* hidden_filtering_constants with the two clauses exchanged
hidden_filtering_constants_swapped ==
    [SHOW |-> <<>>,
     FILTER |-> <<Tok("hidden=TRUE")>>,
     ONLY_HIDDEN |-> <<Tok("hidden=FALSE")>>]

hidden_filtering_constants ==
    [SHOW |-> <<>>,
     FILTER |-> <<Tok("hidden=FALSE")>>,
     ONLY_HIDDEN |-> <<Tok("hidden=TRUE")>>]

HIDDEN_FILTERING == {"FILTER", "SHOW", "ONLY_HIDDEN"}

get_image_id_by_tag_code_block ==
    <<Tok("id in (SELECT content_id from content_tags_list where tag_id in ("),
      Tok("{}"), Tok("))")>>

get_image_id_by_not_tag_code_block ==
    <<Tok("id not in (SELECT content_id from content_tags_list where tag_id in ("),
      Tok("{}"), Tok("))")>>

base_rows == <<Tok("SELECT ID, file_path, content_type, title from content where ")>>
base_count == <<Tok("SELECT COUNT(*) from content where ")>>

\* fetch_tag_ids with an int taken as that one tag id
fetch_tag_ids_id_alone(T, A, ref) ==
    IF ref.kind = "str" THEN SortedSeq(get_tags_ids(T, A, ref.s))
    ELSE IF ref.kind = "int" THEN <<ref.n>>
    ELSE <<>>

\* cursor.execute(get_tags_ids | get_parent_tag_ids); cursor.fetchall().
\* For a reference that is neither str nor int nothing is executed, and
\* fetchall() finds the rows of the previous statement already fetched
fetch_tag_ids(T, A, ref) ==
    IF ref.kind = "str" THEN SortedSeq(get_tags_ids(T, A, ref.s))
    ELSE IF ref.kind = "int" THEN SortedSeq(get_parent_tag_ids(T, ref.n))
    ELSE <<>>

RECURSIVE raw_tag_ids(_, _, _)
\* the rows fetched for the references of one group, in order, repeats kept
raw_tag_ids(T, A, refs) ==
    IF refs = <<>> THEN <<>>
    ELSE fetch_tag_ids(T, A, Head(refs)) \o raw_tag_ids(T, A, Tail(refs))

Range(f) == {f[i] : i \in DOMAIN f}

\* tags_count.append(len(raw_tag_ids)): counted before the ids become a set
tags_count_of(raw) == Len(raw)

\* "%s" followed by ", %s" for j in range(1, val)
tag_set_list(val) == <<Tok("%s")>> \o [j \in 1..(val - 1) |-> Tok(", %s")]

RECURSIVE format(_, _)
\* str.format(*lists): the k-th "{}" becomes the k-th list
format(sql, lists) ==
    IF sql = <<>> THEN <<>>
    ELSE IF Head(sql) = Tok("{}") /\ lists # <<>>
         THEN Head(lists) \o format(Tail(sql), Tail(lists))
         ELSE <<Head(sql)>> \o format(Tail(sql), lists)

RECURSIVE group_ids(_, _, _)
\* tag_ids after the first loop: each group's ids as a set, group after group
group_ids(T, A, gs) ==
    IF gs = <<>> THEN <<>>
    ELSE SortedSeq(Range(raw_tag_ids(T, A, Head(gs).tags)))
             \o group_ids(T, A, Tail(gs))

RECURSIVE group_blocks_ignoring_not(_, _, _, _)
\* group_blocks with the "not" flag of a group never read
group_blocks_ignoring_not(T, A, gs, i) ==
    IF i > Len(gs) THEN <<>>
    ELSE get_image_id_by_tag_code_block
         \o (IF i + 1 <= Len(gs) THEN <<Tok(" AND ")>> ELSE <<>>)
         \o group_blocks_ignoring_not(T, A, gs, i + 1)

RECURSIVE group_blocks(_, _, _, _)
\* result_sql_block after the second loop, before str.format
group_blocks(T, A, gs, i) ==
    IF i > Len(gs) THEN <<>>
    ELSE (IF gs[i]["not"] THEN get_image_id_by_not_tag_code_block
          ELSE get_image_id_by_tag_code_block)
         \o (IF i + 1 <= Len(gs) THEN <<Tok(" AND ")>> ELSE <<>>)
         \o group_blocks(T, A, gs, i + 1)

\* the first reference of the request is neither str nor int, and no None
\* entry comes before it: fetchall() on a cursor that has executed nothing
nothing_to_fetch(gs) ==
    \E i \in 1..Len(gs) :
        /\ ~gs[i].isNone
        /\ gs[i].tags # <<>>
        /\ gs[i].tags[1].kind \notin {"str", "int"}
        /\ \A k \in 1..(i - 1) : ~gs[k].isNone /\ gs[k].tags = <<>>

\* a None entry only counts when it comes first
has_none_first(gs) == gs # <<>> /\ gs[1].isNone

\* if tags_group is None: raise, for the entries in turn
has_none(gs) == \E i \in 1..Len(gs) : gs[i].isNone

\* LIMIT and OFFSET as the text has them, with OFFSET also without a LIMIT
limit_offset_apart(limit, offset) ==
    (IF limit # NULL THEN <<Tok(" LIMIT "), Num(limit)>> ELSE <<>>)
        \o (IF offset # NULL THEN <<Tok(" OFFSET "), Num(offset)>> ELSE <<>>)

\* " LIMIT {}".format(limit), and inside it " OFFSET {}".format(offset)
limit_offset(limit, offset) ==
    IF limit # NULL
    THEN <<Tok(" LIMIT "), Num(limit)>>
         \o (IF offset # NULL THEN <<Tok(" OFFSET "), Num(offset)>> ELSE <<>>)
    ELSE <<>>

\* _requests_fabric up to its cursor.execute: the statement and its parameters
requests_fabric(T, A, gs, limit, offset, order_by, filter_hidden, base_sql_block) ==
    IF nothing_to_fetch(gs)
    THEN [raised |-> "ProgrammingError", sql |-> <<>>, params |-> <<>>]
    ELSE IF has_none(gs)
    THEN [raised |-> "Exception", sql |-> <<>>, params |-> <<>>]
    ELSE
    LET tags_set_lists ==
            [i \in 1..Len(gs) |->
                tag_set_list(tags_count_of(raw_tag_ids(T, A, gs[i].tags)))]
        with_groups ==
            IF Len(gs) # 0
            THEN format(base_sql_block \o group_blocks(T, A, gs, 1), tags_set_lists)
            ELSE base_sql_block
        with_hidden ==
            IF filter_hidden # "SHOW"
            THEN with_groups
                 \o (IF Len(gs) # 0 THEN <<Tok(" AND ")>> ELSE <<>>)
                 \o hidden_filtering_constants[filter_hidden]
            ELSE with_groups
        with_order ==
            IF order_by # "NONE"
            THEN with_hidden \o <<Tok(" ORDER BY "), Tok(ordering_constants[order_by])>>
            ELSE with_hidden
        with_limit == with_order \o limit_offset(limit, offset)
    IN [raised |-> "", sql |-> with_limit, params |-> group_ids(T, A, gs)]

\* ---- cursor.execute(result_sql_block, tag_ids): what the driver and the
\* server make of the statement text

RECURSIVE more_placeholders(_, _)
\* how many ", %s" follow from position j
more_placeholders(sql, j) ==
    IF j <= Len(sql) /\ sql[j] = Tok(", %s") THEN 1 + more_placeholders(sql, j + 1) ELSE 0

\* the predicate term starting at position i: [ok, kind, neg, n, next]
parse_term(sql, i) ==
    LET bad == [ok |-> FALSE, kind |-> "", neg |-> FALSE, n |-> 0, next |-> i]
    IN IF i > Len(sql) THEN bad
       ELSE IF sql[i] \in {Head(get_image_id_by_tag_code_block),
                           Head(get_image_id_by_not_tag_code_block)}
       THEN IF i + 1 <= Len(sql) /\ sql[i + 1] = Tok("%s")
            THEN LET k == more_placeholders(sql, i + 2)
                 IN IF i + 2 + k <= Len(sql) /\ sql[i + 2 + k] = Tok("))")
                    THEN [ok |-> TRUE, kind |-> "in",
                          neg |-> (sql[i] = Head(get_image_id_by_not_tag_code_block)),
                          n |-> 1 + k, next |-> i + 3 + k]
                    ELSE bad
            ELSE bad
       ELSE IF sql[i] = Tok("hidden=FALSE")
       THEN [ok |-> TRUE, kind |-> "hidden", neg |-> TRUE, n |-> 0, next |-> i + 1]
       ELSE IF sql[i] = Tok("hidden=TRUE")
       THEN [ok |-> TRUE, kind |-> "hidden", neg |-> FALSE, n |-> 0, next |-> i + 1]
       ELSE bad

RECURSIVE parse_where(_, _)
\* term (" AND " term)* from position i: [ok, terms, next]
parse_where(sql, i) ==
    LET t == parse_term(sql, i)
    IN IF ~t.ok THEN [ok |-> FALSE, terms |-> <<>>, next |-> i]
       ELSE IF t.next <= Len(sql) /\ sql[t.next] = Tok(" AND ")
       THEN LET rest == parse_where(sql, t.next + 1)
            IN [ok |-> rest.ok, terms |-> <<t>> \o rest.terms, next |-> rest.next]
       ELSE [ok |-> TRUE, terms |-> <<t>>, next |-> t.next]

\* [ORDER BY expr] [LIMIT n [OFFSET m]] from position i to the end
parse_tail(sql, i) ==
    LET has(j, s) == j <= Len(sql) /\ sql[j] = Tok(s)
        num(j) == j <= Len(sql) /\ sql[j].s = "<int>" /\ sql[j].n >= 0
        ordered == has(i, " ORDER BY ")
        i1 == IF ordered THEN i + 2 ELSE i
        limited == has(i1, " LIMIT ")
        i2 == IF limited THEN i1 + 2 ELSE i1
        shifted == has(i2, " OFFSET ")
        i3 == IF shifted THEN i2 + 2 ELSE i2
    IN [ok |-> /\ (ordered => i + 1 <= Len(sql)
                               /\ sql[i + 1].s \in Range(ordering_constants))
               /\ (limited => num(i1 + 1))
               /\ (shifted => num(i2 + 1))
               /\ i3 = Len(sql) + 1,
        order |-> IF ordered /\ i + 1 <= Len(sql) THEN sql[i + 1].s ELSE "",
        limit |-> IF limited /\ num(i1 + 1) THEN sql[i1 + 1].n ELSE NULL,
        offset |-> IF shifted /\ num(i2 + 1) THEN sql[i2 + 1].n ELSE NULL]

RECURSIVE placeholders(_)
placeholders(terms) ==
    IF terms = <<>> THEN 0 ELSE Head(terms).n + placeholders(Tail(terms))

\* the number of %s in the statement text
count_placeholders(sql) ==
    Cardinality({i \in 1..Len(sql) : sql[i] \in {Tok("%s"), Tok(", %s")}})

RECURSIVE holds_all(_, _, _, _)
\* whether content row c satisfies every term, the parameters bound in order
holds_all(L, c, terms, params) ==
    IF terms = <<>> THEN TRUE
    ELSE LET t == Head(terms)
             bound == {params[i] : i \in 1..t.n}
             left == SubSeq(params, t.n + 1, Len(params))
             here == IF t.kind = "hidden" THEN c.hidden = ~t.neg
                     ELSE (c.id \in content_ids_of(L, bound)) = ~t.neg
         IN here /\ holds_all(L, c, Tail(terms), left)

RECURSIVE by_date(_, _)
\* the content rows S by ascending addition_date, as a sequence of ids
by_date(C, S) ==
    IF S = {} THEN <<>>
    ELSE LET m == CHOOSE x \in S : \A y \in S : x.addition_date <= y.addition_date
         IN <<m.id>> \o by_date(C, S \ {m})

reversed(q) == [i \in 1..Len(q) |-> q[Len(q) + 1 - i]]

\* ORDER BY addition_date [DESC] LIMIT limit OFFSET offset over the rows S
order_and_slice(C, S, order, limit, offset) ==
    LET sorted == IF order = ordering_constants.DATE_DECREASING
                  THEN reversed(by_date(C, S)) ELSE by_date(C, S)
        from == IF offset = NULL THEN 1 ELSE offset + 1
        last == IF limit = NULL \/ from + limit - 1 > Len(sorted)
                THEN Len(sorted) ELSE from + limit - 1
    IN SubSeq(sorted, from, last)

\* the rows a parsed statement selects: where is the parsed WHERE clause w,
\* tail the parsed ORDER BY / LIMIT / OFFSET t
select_rows(L, C, params, w, t) ==
    LET S == {x \in C : holds_all(L, x, w.terms, params)}
        dated == t.order \in {ordering_constants.DATE_DECREASING,
                              ordering_constants.DATE_INCREASING}
        list == IF dated THEN order_and_slice(C, S, t.order, t.limit, t.offset)
                ELSE <<>>
    IN [status |-> "ok",
        rows |-> IF dated THEN Range(list) ELSE {c.id : c \in S},
        list |-> list,
        order |-> t.order, limit |-> t.limit, offset |-> t.offset]

\* the statement sql with n placeholders, parsed into w and t, executed with params
execute_parsed(L, C, sql, params, n, w, t) ==
    LET failed(why) == [status |-> why, rows |-> {}, list |-> <<>>, order |-> "",
                        limit |-> NULL, offset |-> NULL]
    IN IF n > Len(params) THEN failed("IndexError")
       ELSE IF n < Len(params) THEN failed("TypeError")
       ELSE IF sql = <<>> \/ Head(sql) \notin {Head(base_rows), Head(base_count)}
               \/ ~w.ok \/ ~t.ok
       THEN failed("SyntaxError")
       ELSE select_rows(L, C, params, w, t)

\* the tail of the statement after its parsed WHERE clause w
parse_after(sql, w) == parse_tail(sql, w.next)

\* cursor.execute(sql, params) of a search statement over links L, content C;
\* list is the sequence of rows fetched, kept when ORDER BY names the date
\* (without it the order is the server's, and rows is all there is to say)
execute_search(L, C, sql, params) ==
    execute_parsed(L, C, sql, params, count_placeholders(sql),
                   parse_where(sql, 2), parse_after(sql, parse_where(sql, 2)))

\* --------------------------------------------- connections and transactions
\* The uncommitted writes of a connection: the keys it wrote (del) and the
\* row versions it wrote (put); aborted after a statement failed in the server
NoTx ==
    [tag_del |-> {}, tag_put |-> {}, alias_del |-> {}, alias_put |-> {},
     link_del |-> {}, link_put |-> {}, aborted |-> FALSE]

NoSnapshot == [tag |-> {}, tag_alias |-> {}, content_tags_list |-> {}, at |-> ""]

\* the committed tables, as a statement of a connection without writes reads them
snapshot(at) ==
    [tag |-> tag, tag_alias |-> tag_alias, content_tags_list |-> content_tags_list,
     at |-> at]

\* the tables as a statement of a connection with the writes t reads them
view(t) ==
    [tag |-> {r \in tag : r.id \notin t.tag_del} \cup t.tag_put,
     tag_alias |-> {r \in tag_alias : r.title \notin t.alias_del} \cup t.alias_put,
     content_tags_list |-> (content_tags_list \ t.link_del) \cup t.link_put]

\* the tables as the next statement of connection c reads them: after a
\* failed statement its writes are lost, whatever ends the transaction
seen(c) == IF tx[c].aborted THEN view(NoTx) ELSE view(tx[c])

\* the arguments and locals of the function a connection runs; before is
\* the tables as the connection read them when the function was called
NoFrame ==
    [first_tag_id |-> NULL, second_tag_id |-> NULL,
     first_content_list |-> {}, second_content_list |-> {},
     tag_name |-> <<>>, tag_category |-> "", tag_alias |-> <<>>, _tag_name |-> <<>>,
     tag_id |-> NULL, response |-> {}, error |-> "",
     before |-> [tag |-> {}, tag_alias |-> {}, content_tags_list |-> {}]]

\* UPDATE content_tags_list SET tag_id = to WHERE content_id = c AND tag_id = from
update_link(t, content_id, from, to) ==
    LET old == [content_id |-> content_id, tag_id |-> from]
        new == [content_id |-> content_id, tag_id |-> to]
    IN IF old \notin view(t).content_tags_list THEN [tx |-> t, error |-> ""]
       ELSE IF new # old /\ new \in view(t).content_tags_list
       THEN [tx |-> [t EXCEPT !.aborted = TRUE], error |-> "UniqueViolation"]
       ELSE [tx |-> [t EXCEPT !.link_del = @ \cup {old},
                              !.link_put = (@ \ {old}) \cup {new}],
             error |-> ""]

\* DELETE FROM content_tags_list WHERE content_id = c AND tag_id = id
delete_link(t, content_id, id) ==
    LET old == [content_id |-> content_id, tag_id |-> id]
    IN [t EXCEPT !.link_del = @ \cup {old}, !.link_put = @ \ {old}]

\* UPDATE tag_alias left out
update_alias_owner_kept(t, from, to) == t

\* UPDATE tag_alias SET tag_id = to WHERE tag_id = from
update_alias_owner(t, from, to) ==
    LET hit == {a \in view(t).tag_alias : a.tag_id = from}
    IN [t EXCEPT !.alias_del = @ \cup {a.title : a \in hit},
                 !.alias_put = (@ \ hit) \cup {[a EXCEPT !.tag_id = to] : a \in hit}]

\* UPDATE tag SET parent = NULL without its where clause
reset_parent_everywhere(t, id) ==
    LET hit == {r \in view(t).tag : r.parent # NULL}
    IN [t EXCEPT !.tag_del = @ \cup {r.id : r \in hit},
                 !.tag_put = (@ \ hit) \cup {[r EXCEPT !.parent = NULL] : r \in hit}]

\* UPDATE tag SET parent = NULL where id = id
reset_parent(t, id) ==
    LET hit == {r \in view(t).tag : r.id = id}
    IN [t EXCEPT !.tag_del = @ \cup {r.id : r \in hit},
                 !.tag_put = (@ \ hit) \cup {[r EXCEPT !.parent = NULL] : r \in hit}]

\* DELETE FROM tag WHERE id = id
delete_tag_row(t, id) ==
    [t EXCEPT !.tag_del = @ \cup {id}, !.tag_put = {r \in @ : r.id # id}]

\* connection.commit(): publish the writes, or drop them after a failed statement
commit(c) ==
    LET v == IF tx[c].aborted THEN view(NoTx) ELSE view(tx[c])
    IN /\ tag' = v.tag
       /\ tag_alias' = v.tag_alias
       /\ content_tags_list' = v.content_tags_list
       /\ tx' = [tx EXCEPT ![c] = NoTx]

\* connection.rollback() that keeps the inserted links
rollback_keeping_links(c) ==
    /\ tx' = [tx EXCEPT ![c] = [NoTx EXCEPT !.link_put = tx[c].link_put]]
    /\ UNCHANGED store

\* connection.rollback(), and what closing the connection does to open writes
rollback(c) ==
    /\ tx' = [tx EXCEPT ![c] = NoTx]
    /\ UNCHANGED store

\* ------------------------------------------------ tags_indexer.merge_tags
\* SELECT content_id FROM content_tags_list where tag_id = id, as a list
get_content_ids_by_tag_id(t, id) ==
    {l.content_id : l \in {x \in view(t).content_tags_list : x.tag_id = id}}

\* reset_ids_set without the subtraction of second_content_list
reset_ids_set_all(first_content_list, second_content_list) ==
    first_content_list

reset_ids_set(first_content_list, second_content_list) ==
    first_content_list \ second_content_list

\* remove_first_id_set taken as empty when the two ids are the same
remove_first_id_set_guarded(first_content_list, second_content_list) ==
    IF first_content_list = second_content_list THEN {}
    ELSE first_content_list \cap second_content_list

remove_first_id_set(first_content_list, second_content_list) ==
    first_content_list \cap second_content_list

\* the reset loop left out
reset_ids_skipped(t, ids, first, second) == [tx |-> t, error |-> ""]

RECURSIVE reset_ids(_, _, _, _)
\* for content_id in reset_ids_set: cursor.execute(sql_reset_ids, ...)
reset_ids(t, ids, first, second) ==
    IF ids = <<>> THEN [tx |-> t, error |-> ""]
    ELSE LET r == update_link(t, Head(ids), first, second)
         IN IF r.error # "" THEN r ELSE reset_ids(r.tx, Tail(ids), first, second)

\* the delete loop left out
delete_connections_skipped(t, ids, first) == t

RECURSIVE delete_connections(_, _, _)
\* for content_id in remove_first_id_set: cursor.execute(sql_delete_connection, ...)
delete_connections(t, ids, first) ==
    IF ids = <<>> THEN t
    ELSE delete_connections(delete_link(t, Head(ids), first), Tail(ids), first)

\* cursor.execute(sql_check_parent_of_tag, (id,)); cursor.fetchone()
check_parent_of_tag(t, id) == {r.parent : r \in {x \in view(t).tag : x.id = id}}

raise(c, error) ==
    /\ pc' = [pc EXCEPT ![c] = "raised"]
    /\ frame' = [frame EXCEPT ![c].error = error]

goto(c, label) == pc' = [pc EXCEPT ![c] = label]

merge_tags_call(c, first_tag_id, second_tag_id) ==
    /\ pc[c] = "idle"
    /\ pre = NoSnapshot
    /\ pre' = snapshot("call")
    /\ goto(c, "merge_read_first")
    /\ frame' = [frame EXCEPT ![c] = [NoFrame EXCEPT !.first_tag_id = first_tag_id,
                                                     !.second_tag_id = second_tag_id]]
    /\ UNCHANGED <<store, content, tx, observed, groups, reply, registry>>

merge_read_first(c) ==
    /\ pc[c] = "merge_read_first"
    /\ frame' = [frame EXCEPT ![c].first_content_list =
                     get_content_ids_by_tag_id(tx[c], frame[c].first_tag_id)]
    /\ goto(c, "merge_read_second")
    /\ UNCHANGED <<store, content, tx, pre, observed, groups, reply, registry>>

merge_read_second(c) ==
    /\ pc[c] = "merge_read_second"
    /\ frame' = [frame EXCEPT ![c].second_content_list =
                     get_content_ids_by_tag_id(tx[c], frame[c].second_tag_id)]
    /\ goto(c, "merge_reset_ids")
    /\ UNCHANGED <<store, content, tx, pre, observed, groups, reply, registry>>

merge_reset_ids(c) ==
    /\ pc[c] = "merge_reset_ids"
    /\ LET f == frame[c]
           r == reset_ids(tx[c],
                          SortedSeq(reset_ids_set(f.first_content_list,
                                                  f.second_content_list)),
                          f.first_tag_id, f.second_tag_id)
       IN /\ tx' = [tx EXCEPT ![c] = r.tx]
          /\ IF r.error # "" THEN raise(c, r.error)
             ELSE goto(c, "merge_delete_connections") /\ UNCHANGED frame
    /\ UNCHANGED <<store, content, pre, observed, groups, reply, registry>>

merge_delete_connections(c) ==
    /\ pc[c] = "merge_delete_connections"
    /\ LET f == frame[c]
       IN tx' = [tx EXCEPT ![c] =
                    delete_connections(@,
                        SortedSeq(remove_first_id_set(f.first_content_list,
                                                      f.second_content_list)),
                        f.first_tag_id)]
    /\ goto(c, "merge_reset_alias")
    /\ UNCHANGED <<store, content, frame, pre, observed, groups, reply, registry>>

\* merge_reset_alias followed by a commit of its own
merge_reset_alias_committing(c) ==
    /\ pc[c] = "merge_reset_alias"
    /\ LET v == view(update_alias_owner(tx[c], frame[c].first_tag_id,
                                        frame[c].second_tag_id))
       IN /\ tag' = v.tag
          /\ tag_alias' = v.tag_alias
          /\ content_tags_list' = v.content_tags_list
    /\ tx' = [tx EXCEPT ![c] = NoTx]
    /\ goto(c, "merge_check_second_parent")
    /\ UNCHANGED <<content, frame, pre, observed, groups, reply, registry>>

merge_reset_alias(c) ==
    /\ pc[c] = "merge_reset_alias"
    /\ tx' = [tx EXCEPT ![c] =
                 update_alias_owner(@, frame[c].first_tag_id, frame[c].second_tag_id)]
    /\ goto(c, "merge_check_second_parent")
    /\ UNCHANGED <<store, content, frame, pre, observed, groups, reply, registry>>

merge_check_second_parent(c) ==
    /\ pc[c] = "merge_check_second_parent"
    /\ LET f == frame[c]
           fetched == check_parent_of_tag(tx[c], f.second_tag_id)
       IN IF fetched = {}
          THEN raise(c, "Exception") /\ UNCHANGED tx
          ELSE /\ tx' = [tx EXCEPT ![c] =
                            IF f.first_tag_id \in fetched
                            THEN reset_parent(@, f.second_tag_id) ELSE @]
               /\ goto(c, "merge_check_first_parent")
               /\ UNCHANGED frame
    /\ UNCHANGED <<store, content, pre, observed, groups, reply, registry>>

merge_check_first_parent(c) ==
    /\ pc[c] = "merge_check_first_parent"
    /\ LET f == frame[c]
           fetched == check_parent_of_tag(tx[c], f.first_tag_id)
       IN IF fetched = {}
          THEN raise(c, "Exception") /\ UNCHANGED tx
          ELSE /\ tx' = [tx EXCEPT ![c] =
                            IF f.second_tag_id \in fetched
                            THEN reset_parent(@, f.first_tag_id) ELSE @]
               /\ goto(c, "merge_delete_first_tag")
               /\ UNCHANGED frame
    /\ UNCHANGED <<store, content, pre, observed, groups, reply, registry>>

merge_delete_first_tag(c) ==
    /\ pc[c] = "merge_delete_first_tag"
    /\ tx' = [tx EXCEPT ![c] = delete_tag_row(@, frame[c].first_tag_id)]
    /\ goto(c, "merge_commit")
    /\ UNCHANGED <<store, content, frame, pre, observed, groups, reply, registry>>

merge_commit(c) ==
    /\ pc[c] = "merge_commit"
    /\ commit(c)
    /\ goto(c, "returned")
    /\ UNCHANGED <<content, frame, pre, observed, groups, reply, registry>>

\* the caller of a function that raised commits on the same connection
caller_commit(c) ==
    /\ pc[c] = "raised"
    /\ commit(c)
    /\ goto(c, "closed")
    /\ UNCHANGED <<content, frame, pre, observed, groups, reply, registry>>

\* the caller of a function that raised rolls back or closes the connection
caller_rollback(c) ==
    /\ pc[c] = "raised"
    /\ rollback(c)
    /\ goto(c, "closed")
    /\ UNCHANGED <<content, frame, pre, observed, groups, reply, registry>>

\* another connection reads the tables while c runs its function
observe(c, d) ==
    /\ c # d
    /\ pc[d] = "idle"
    /\ pc[c] \notin {"idle", "closed"}
    /\ observed' = snapshot("seen")
    /\ UNCHANGED <<store, content, tx, pc, frame, pre, groups, reply, registry>>

\* -------------------------------------------- tags_indexer.insert_new_tag
\* tag_alias: str | None
None == <<"None">>

\* "character:{}".format(tag_name), "artist:{}".format(tag_name)
prefixed(tag_category, tag_name) == <<tag_category \o ":">> \o tag_name

default_alias(tag_name, tag_category, alias) ==
    IF alias # None THEN alias
    ELSE IF tag_category \in {"character", "artist"}
    THEN prefixed(tag_category, tag_name)
    ELSE tag_name

\* a statement of connection c waits for the connection that wrote, and has
\* not yet committed or rolled back, a row with the same unique key
tag_key_locked(c, title, category) ==
    \E d \in Connections \ {c} :
        \/ \E r \in tx[d].tag_put : r.title = title /\ r.category = category
        \/ \E r \in tag : r.title = title /\ r.category = category
                            /\ r.id \in tx[d].tag_del

tag_row_locked(c, id) == \E d \in Connections \ {c} : id \in tx[d].tag_del

alias_key_locked(c, title) ==
    \E d \in Connections \ {c} :
        \/ \E a \in tx[d].alias_put : a.title = title
        \/ title \in tx[d].alias_del

\* _check_tag_exists with the alias taken whatever the category of its owner
check_tag_exists_any_category(V, tag_name, tag_category) ==
    LET _tag_name == replace(tag_name, "_", " ")
        by_title == {r.id : r \in {x \in V.tag : x.title = _tag_name
                                                  /\ x.category = tag_category}}
        owners == {a.tag_id : a \in {x \in V.tag_alias : x.title = _tag_name}}
    IN IF by_title # {} THEN by_title ELSE owners

\* SELECT ID FROM tag WHERE title=%s and category=%s, then the same through
\* the alias table; the set of ids cursor.fetchone() may return ({}: None)
check_tag_exists_(V, tag_name, tag_category) ==
    LET _tag_name == replace(tag_name, "_", " ")
        by_title == {r.id : r \in {x \in V.tag : x.title = _tag_name
                                                  /\ x.category = tag_category}}
        owners == {a.tag_id : a \in {x \in V.tag_alias : x.title = _tag_name}}
        by_alias == {r.id : r \in {x \in V.tag : x.id \in owners
                                                  /\ x.category = tag_category}}
    IN IF by_title # {} THEN by_title ELSE by_alias

\* SELECT tag.category, ID from tag where id=(SELECT tag_id from tag_alias
\* where tag_alias.title=%s)
get_tag_info(V, title) ==
    LET owners == {a.tag_id : a \in {x \in V.tag_alias : x.title = title}}
    IN {<<r.category, r.id>> : r \in {x \in V.tag : x.id \in owners}}

\* SELECT tag_id FROM tag_alias WHERE title=%s; the ids fetchone() may
\* return ({}: None)
get_tag_id_by_alias(V, alias) == {a.tag_id : a \in {x \in V.tag_alias : x.title = alias}}

\* UPDATE tag set category = %s where id = %s
update_category(t, tag_category, id) ==
    LET hit == {r \in view(t).tag : r.id = id}
    IN [t EXCEPT !.tag_del = @ \cup {r.id : r \in hit},
                 !.tag_put = (@ \ hit)
                     \cup {[r EXCEPT !.category = tag_category] : r \in hit}]

\* what became of the writes of the ended calls of connection c that were
\* still uncommitted: "committed" or "undone"
settle(rs, c, fate) ==
    [i \in DOMAIN rs |->
        IF rs[i].conn = c /\ rs[i].fate = "pending"
        THEN [rs[i] EXCEPT !.fate = fate] ELSE rs[i]]

\* the call ends: its arguments and outcome are what the caller has seen;
\* fate tells whether what it returned rests on committed rows
return(c, rs, outcome, id, error, fate) ==
    /\ results' = Append(rs,
           [conn |-> c, _tag_name |-> frame[c]._tag_name,
            tag_category |-> frame[c].tag_category, tag_alias |-> frame[c].tag_alias,
            outcome |-> outcome, tag_id |-> id, error |-> error,
            conflict |-> frame[c].error, fate |-> fate,
            before |-> frame[c].before])
    /\ frame' = [frame EXCEPT ![c] = NoFrame]
    /\ pc' = [pc EXCEPT ![c] = "idle"]

insert_new_tag(c, tag_name, tag_category, alias) ==
    /\ pc[c] = "idle"
    /\ frame' = [frame EXCEPT ![c] =
           [NoFrame EXCEPT !.tag_name = tag_name,
                           !.tag_category = tag_category,
                           !.tag_alias = default_alias(tag_name, tag_category, alias),
                           !._tag_name = replace(tag_name, "_", " "),
                           !.before = seen(c)]]
    /\ goto(c, "insert_tag")
    /\ UNCHANGED <<store, content, tx, pre, observed, groups, reply, registry>>

\* cursor.execute(sql_insert_tag_query, (_tag_name, tag_category))
insert_tag(c) ==
    /\ pc[c] = "insert_tag"
    /\ LET f == frame[c]
           taken == {r \in view(tx[c]).tag : r.title = f._tag_name
                                             /\ r.category = f.tag_category}
       IN IF tx[c].aborted
          THEN /\ return(c, results, "raised", NULL, "InFailedSqlTransaction", "undone")
               /\ UNCHANGED <<tx, tag_id_seq>>
          ELSE /\ taken = {} => ~tag_key_locked(c, f._tag_name, f.tag_category)
               /\ \A r \in taken : ~tag_row_locked(c, r.id)
               /\ tag_id_seq' = tag_id_seq + 1
               /\ UNCHANGED results
               /\ IF taken # {}
                  THEN /\ tx' = [tx EXCEPT ![c].aborted = TRUE]
                       /\ frame' = [frame EXCEPT ![c].error = "UniqueViolation"]
                       /\ goto(c, "tag_conflict_rollback")
                  ELSE /\ tx' = [tx EXCEPT ![c].tag_put = @ \cup
                                    {[id |-> tag_id_seq, title |-> f._tag_name,
                                      category |-> f.tag_category, parent |-> NULL]}]
                       /\ frame' = [frame EXCEPT ![c].tag_id = tag_id_seq]
                       /\ goto(c, "insert_alias")
    /\ UNCHANGED <<store, content, pre, observed, groups, reply>>

\* except psycopg2.errors.UniqueViolation as e: connection.rollback()
tag_conflict_rollback(c) ==
    /\ pc[c] = "tag_conflict_rollback"
    /\ rollback(c)
    /\ results' = settle(results, c, "undone")
    /\ goto(c, "tag_conflict_check")
    /\ UNCHANGED <<content, frame, pre, observed, groups, reply, tag_id_seq>>

\* return common.get_value_or_fail(_check_tag_exists(cursor, ...), e)
tag_conflict_check(c) ==
    /\ pc[c] = "tag_conflict_check"
    /\ LET id == check_tag_exists_(view(tx[c]), frame[c]._tag_name,
                                   frame[c].tag_category)
       IN IF id = {} THEN return(c, results, "raised", NULL, "UniqueViolation", "undone")
          ELSE \E i \in id : return(c, results, "returned", i, "", "committed")
    /\ UNCHANGED <<store, content, tx, pre, observed, groups, reply, tag_id_seq>>

\* cursor.execute(sql_insert_alias_query, (tag_id, tag_alias))
insert_alias(c) ==
    /\ pc[c] = "insert_alias"
    /\ LET f == frame[c]
           taken == \E a \in view(tx[c]).tag_alias : a.title = f.tag_alias
       IN /\ ~alias_key_locked(c, f.tag_alias)
          /\ IF taken
             THEN /\ tx' = [tx EXCEPT ![c].aborted = TRUE]
                  /\ frame' = [frame EXCEPT ![c].error = "IntegrityError"]
                  /\ goto(c, "alias_conflict_rollback")
             ELSE /\ tx' = [tx EXCEPT ![c].alias_put = @ \cup
                               {[tag_id |-> f.tag_id, title |-> f.tag_alias]}]
                  /\ goto(c, "insert_second_alias")
                  /\ UNCHANGED frame
    /\ UNCHANGED <<store, content, pre, observed, groups, reply, registry>>

\* except psycopg2.IntegrityError as e: cursor.connection.rollback()
alias_conflict_rollback(c) ==
    /\ pc[c] = "alias_conflict_rollback"
    /\ rollback(c)
    /\ results' = settle(results, c, "undone")
    /\ goto(c, "alias_conflict_info")
    /\ UNCHANGED <<content, frame, pre, observed, groups, reply, tag_id_seq>>

\* get_tag_info by _tag_name, remove_duplicate, then the branch on the
\* owner's category
alias_conflict_info(c) ==
    /\ pc[c] = "alias_conflict_info"
    /\ ~tag_row_locked(c, frame[c].tag_id)
    /\ LET f == frame[c]
           response == get_tag_info(view(tx[c]), f._tag_name)
           t == delete_tag_row(tx[c], f.tag_id)
       IN /\ tx' = [tx EXCEPT ![c] =
                       IF \E r \in view(tx[c]).tag : r.id = f.tag_id THEN t ELSE @]
          /\ IF response = {}
             THEN return(c, results, "raised", NULL, "IntegrityError", "undone")
                      /\ UNCHANGED tag_id_seq
             ELSE \E r \in response :
                    IF r[1] = "content"
                    THEN /\ frame' = [frame EXCEPT ![c].tag_id = r[2],
                                                   ![c].response = {r}]
                         /\ goto(c, "update_category")
                         /\ UNCHANGED registry
                    ELSE IF f.tag_category = "content"
                    THEN return(c, results, "returned", r[2], "", "committed")
                             /\ UNCHANGED tag_id_seq
                    ELSE return(c, results, "raised", NULL, "IntegrityError", "undone")
                             /\ UNCHANGED tag_id_seq
    /\ UNCHANGED <<store, content, pre, observed, groups, reply>>

\* cursor.execute(update_category, (tag_category, tag_id)); return tag_id
update_category_return(c) ==
    /\ pc[c] = "update_category"
    /\ LET f == frame[c]
           V == view(tx[c])
           taken == {r \in V.tag : r.id # f.tag_id /\ r.category = f.tag_category
                        /\ \E x \in V.tag : x.id = f.tag_id /\ x.title = r.title}
       IN /\ ~tag_row_locked(c, f.tag_id)
          /\ \A x \in {y \in V.tag : y.id = f.tag_id} :
                 taken = {} => ~tag_key_locked(c, x.title, f.tag_category)
          /\ IF taken # {}
             THEN /\ tx' = [tx EXCEPT ![c].aborted = TRUE]
                  /\ return(c, results, "raised", NULL, "UniqueViolation", "undone")
             ELSE /\ tx' = [tx EXCEPT ![c] = update_category(@, f.tag_category, f.tag_id)]
                  /\ return(c, results, "returned", f.tag_id, "", "pending")
    /\ UNCHANGED <<store, content, pre, observed, groups, reply, tag_id_seq>>

\* the alias with "_" and " " swapped, when tag_alias has one of them
second_alias(alias) ==
    IF contains(alias, " ") THEN replace(alias, " ", "_")
    ELSE IF contains(alias, "_") THEN replace(alias, "_", " ")
    ELSE None

insert_second_alias(c) ==
    /\ pc[c] = "insert_second_alias"
    /\ LET f == frame[c]
           title == second_alias(f.tag_alias)
       IN IF title = None
          THEN goto(c, "commit") /\ UNCHANGED <<tx, frame, registry>>
          ELSE /\ ~alias_key_locked(c, title)
               /\ IF \E a \in view(tx[c]).tag_alias : a.title = title
                  THEN /\ tx' = [tx EXCEPT ![c].aborted = TRUE]
                       /\ return(c, results, "raised", NULL, "UniqueViolation", "undone")
                       /\ UNCHANGED tag_id_seq
                  ELSE /\ tx' = [tx EXCEPT ![c].alias_put = @ \cup
                                    {[tag_id |-> f.tag_id, title |-> title]}]
                       /\ goto(c, "commit")
                       /\ UNCHANGED <<frame, registry>>
    /\ UNCHANGED <<store, content, pre, observed, groups, reply>>

\* connection.commit(); return tag_id
commit_return(c) ==
    /\ pc[c] = "commit"
    /\ commit(c)
    /\ return(c, settle(results, c, "committed"), "returned", frame[c].tag_id, "",
              "committed")
    /\ UNCHANGED <<content, pre, observed, groups, reply, tag_id_seq>>

\* between two calls the caller commits what the connection holds
connection_commit(c) ==
    /\ pc[c] = "idle"
    /\ tx[c] # NoTx
    /\ commit(c)
    /\ results' = settle(results, c, IF tx[c].aborted THEN "undone" ELSE "committed")
    /\ UNCHANGED <<content, pc, frame, pre, observed, groups, reply, tag_id_seq>>

\* between two calls the caller rolls the connection back
connection_rollback(c) ==
    /\ pc[c] = "idle"
    /\ tx[c] # NoTx
    /\ rollback(c)
    /\ results' = settle(results, c, "undone")
    /\ UNCHANGED <<content, pc, frame, pre, observed, groups, reply, tag_id_seq>>

NoReply ==
    [fn |-> "", filter_hidden |-> "", order_by |-> "", limit |-> NULL, offset |-> NULL,
     raised |-> "", sql |-> <<>>, params |-> <<>>, status |-> "", rows |-> {},
     list |-> <<>>, count |-> NULL]

\* what the caller gets from the statement q and its execution r
reply_of(fn, limit, offset, order_by, filter_hidden, base_sql_block, q, r) ==
    IF q.raised # ""
    THEN [NoReply EXCEPT !.fn = fn, !.filter_hidden = filter_hidden,
                         !.order_by = order_by, !.limit = limit,
                         !.offset = offset, !.raised = q.raised]
    ELSE [fn |-> fn, filter_hidden |-> filter_hidden, order_by |-> order_by,
          limit |-> limit, offset |-> offset,
          raised |-> IF r.status = "ok" THEN "" ELSE r.status,
          sql |-> q.sql, params |-> q.params, status |-> r.status,
          rows |-> IF Head(base_sql_block) = Head(base_rows) THEN r.rows ELSE {},
          list |-> IF Head(base_sql_block) = Head(base_rows) THEN r.list ELSE <<>>,
          count |-> IF r.status = "ok" /\ Head(base_sql_block) = Head(base_count)
                    THEN Cardinality(r.rows) ELSE NULL]

\* the statement q, executed
executed(L, C, q) == execute_search(L, C, q.sql, q.params)

\* the statement q, executed, and what the caller gets
fetched(fn, L, C, limit, offset, order_by, filter_hidden, base_sql_block, q) ==
    reply_of(fn, limit, offset, order_by, filter_hidden, base_sql_block, q,
             executed(L, C, q))

\* _requests_fabric with its final cursor.execute, then the caller's fetch
search(fn, T, A, L, C, gs, limit, offset, order_by, filter_hidden, base_sql_block) ==
    fetched(fn, L, C, limit, offset, order_by, filter_hidden, base_sql_block,
            requests_fabric(T, A, gs, limit, offset, order_by, filter_hidden,
                            base_sql_block))

\* ---- the store the searches run on: three tags (2 is a child of 1, 3 is a
\* child of 2, "q" is an alias of 1) and one content row for every set of
\* tags and hidden flag
QueryTags ==
    {[id |-> 1, title |-> <<"p">>, category |-> "content", parent |-> NULL],
     [id |-> 2, title |-> <<"c">>, category |-> "content", parent |-> 1],
     [id |-> 3, title |-> <<"x">>, category |-> "content", parent |-> 2]}

QueryAliases == {[tag_id |-> 1, title |-> <<"q">>]}

QueryContent ==
    {[id |-> c, hidden |-> (c > 8), addition_date |-> (c * 7) % 17] : c \in 1..16}

QueryLinks ==
    {l \in [content_id : 1..16, tag_id : 1..3] :
        ((l.content_id - 1) \div (2 ^ (l.tag_id - 1))) % 2 = 1}

\* the references a caller may put in a group: labels (a title, an alias of
\* the same tag, the title of a descendant, an unknown label) and a tag id
QueryRefs ==
    {StrRef(<<"p">>), StrRef(<<"q">>), StrRef(<<"c">>), StrRef(<<"z">>), IntRef(1)}

RECURSIVE count_refs(_)
\* the references in the argument list so far
count_refs(gs) == IF gs = <<>> THEN 0 ELSE Len(Head(gs).tags) + count_refs(Tail(gs))

\* the caller puts one more group into the argument list
AddGroup(neg) ==
    /\ reply = NoReply
    /\ Len(groups) < MaxGroups
    /\ groups' = Append(groups, [tags |-> <<>>, not |-> neg, isNone |-> FALSE])
    /\ UNCHANGED <<tag, tag_alias, content_tags_list, content, reply>>
    /\ UNCHANGED <<tx, pc, frame, pre, observed, registry>>

\* the caller puts None where a group belongs
AddNone ==
    /\ reply = NoReply
    /\ Len(groups) < MaxGroups
    /\ groups' = Append(groups, [tags |-> <<>>, not |-> FALSE, isNone |-> TRUE])
    /\ UNCHANGED <<tag, tag_alias, content_tags_list, content, reply>>
    /\ UNCHANGED <<tx, pc, frame, pre, observed, registry>>

\* the caller puts one more reference into the last group
AddRef(ref) ==
    /\ reply = NoReply
    /\ groups # <<>>
    /\ ~groups[Len(groups)].isNone
    /\ count_refs(groups) < MaxRefs
    /\ groups' = [groups EXCEPT ![Len(groups)].tags = Append(@, ref)]
    /\ UNCHANGED <<tag, tag_alias, content_tags_list, content, reply>>
    /\ UNCHANGED <<tx, pc, frame, pre, observed, registry>>

\* a LIMIT is asked for together with a date ordering
get_media_by_tags(limit, offset, order_by, filter_hidden) ==
    /\ reply = NoReply
    /\ limit # NULL => order_by \in {"DATE_DECREASING", "DATE_INCREASING"}
    /\ reply' = search("get_media_by_tags", tag, tag_alias, content_tags_list,
                       content, groups, limit, offset, order_by, filter_hidden,
                       base_rows)
    /\ UNCHANGED <<tag, tag_alias, content_tags_list, content, groups>>
    /\ UNCHANGED <<tx, pc, frame, pre, observed, registry>>

get_all_media(order_by, filter_hidden) ==
    /\ reply = NoReply
    /\ groups = <<>>
    /\ reply' = search("get_all_media", tag, tag_alias, content_tags_list,
                       content, <<>>, NULL, NULL, order_by, filter_hidden, base_rows)
    /\ UNCHANGED <<tag, tag_alias, content_tags_list, content, groups>>
    /\ UNCHANGED <<tx, pc, frame, pre, observed, registry>>

count_media_by_tags(filter_hidden) ==
    /\ reply = NoReply
    /\ reply' = search("count_media_by_tags", tag, tag_alias, content_tags_list,
                       content, groups, NULL, NULL, "NONE", filter_hidden,
                       base_count)
    /\ UNCHANGED <<tag, tag_alias, content_tags_list, content, groups>>
    /\ UNCHANGED <<tx, pc, frame, pre, observed, registry>>

get_total_count(filter_hidden) ==
    /\ reply = NoReply
    /\ groups = <<>>
    /\ reply' = search("get_total_count", tag, tag_alias, content_tags_list,
                       content, <<>>, NULL, NULL, "NONE", filter_hidden, base_count)
    /\ UNCHANGED <<tag, tag_alias, content_tags_list, content, groups>>
    /\ UNCHANGED <<tx, pc, frame, pre, observed, registry>>

InitQuery ==
    /\ tag = QueryTags
    /\ tag_alias = QueryAliases
    /\ content_tags_list = QueryLinks
    /\ content = QueryContent
    /\ tx = [c \in Connections |-> NoTx]
    /\ pc = [c \in Connections |-> "idle"]
    /\ frame = [c \in Connections |-> NoFrame]
    /\ pre = NoSnapshot
    /\ observed = NoSnapshot
    /\ tag_id_seq = 1
    /\ results = <<>>
    /\ groups = <<>>
    /\ reply = NoReply

NextQuery ==
    \/ \E neg \in BOOLEAN : AddGroup(neg)
    \/ AddNone
    \/ \E ref \in QueryRefs : AddRef(ref)
    \/ \E h \in HIDDEN_FILTERING : get_media_by_tags(NULL, NULL, "NONE", h)
    \/ \E o \in ORDERING_BY, h \in HIDDEN_FILTERING : get_all_media(o, h)
    \/ \E h \in HIDDEN_FILTERING : count_media_by_tags(h)
    \/ \E h \in HIDDEN_FILTERING : get_total_count(h)

SpecQuery == InitQuery /\ [][NextQuery]_vars

\* ------------------------------------------------------ paginated searches
\* the argument lists of the paginated searches: no group, one positive or
\* negated group, a positive and a negated group, and groups with a
\* reference that is neither a label nor an id, first or after a label
PageGroups ==
    {<<>>,
     <<[tags |-> <<OtherRef>>, not |-> FALSE, isNone |-> FALSE]>>,
     <<[tags |-> <<StrRef(<<"p">>), OtherRef>>, not |-> FALSE, isNone |-> FALSE]>>,
     <<[tags |-> <<IntRef(1)>>, not |-> FALSE, isNone |-> FALSE]>>,
     <<[tags |-> <<StrRef(<<"c">>)>>, not |-> TRUE, isNone |-> FALSE]>>,
     <<[tags |-> <<StrRef(<<"p">>), StrRef(<<"c">>)>>, not |-> FALSE, isNone |-> FALSE],
       [tags |-> <<StrRef(<<"q">>)>>, not |-> TRUE, isNone |-> FALSE]>>}

\* limit: int | None = None, offset: int | None = None
Limits == {NULL} \cup 0..MaxLimit
Offsets == {NULL} \cup 0..MaxOffset

InitPage ==
    /\ tag = QueryTags
    /\ tag_alias = QueryAliases
    /\ content_tags_list = QueryLinks
    /\ content = QueryContent
    /\ tx = [c \in Connections |-> NoTx]
    /\ pc = [c \in Connections |-> "idle"]
    /\ frame = [c \in Connections |-> NoFrame]
    /\ pre = NoSnapshot
    /\ observed = NoSnapshot
    /\ tag_id_seq = 1
    /\ results = <<>>
    /\ groups \in PageGroups
    /\ reply = NoReply

NextPage ==
    \E limit \in Limits, offset \in Offsets, o \in ORDERING_BY, h \in HIDDEN_FILTERING :
        get_media_by_tags(limit, offset, o, h)

SpecPage == InitPage /\ [][NextPage]_vars

\* ------------------------------------------------------ merging two tags
\* Stores on which merge_tags runs: tags 1 and 2 are merged in either
\* parent relation, tag 3 stands by (on its own or as a child of tag 1)
MergeParents ==
    {<<NULL, NULL, NULL>>, <<NULL, NULL, 1>>, <<2, NULL, NULL>>, <<2, NULL, 1>>,
     <<NULL, 1, NULL>>, <<NULL, 1, 1>>}

MergeTags(parents) ==
    {[id |-> 1, title |-> <<"a">>, category |-> "content", parent |-> parents[1]],
     [id |-> 2, title |-> <<"b">>, category |-> "content", parent |-> parents[2]],
     [id |-> 3, title |-> <<"x">>, category |-> "content", parent |-> parents[3]]}

MergeAliases ==
    {as \cup {[tag_id |-> 3, title |-> <<"x">>]} :
        as \in SUBSET {[tag_id |-> 1, title |-> <<"a">>],
                       [tag_id |-> 2, title |-> <<"b">>]}}

MergeContent ==
    {[id |-> c, hidden |-> FALSE, addition_date |-> c] : c \in 1..MaxMergeContent}

MergeLinks == SUBSET [content_id : 1..MaxMergeContent, tag_id : 1..3]

\* an id no tag row has
MissingTag == 4

\* (first_tag_id, second_tag_id) as callers pass them: two tags, one tag
\* twice, a second or a first id that no tag row has
MergeArguments == {<<1, 2>>, <<2, 1>>, <<1, 1>>, <<1, MissingTag>>, <<MissingTag, 2>>}

\* the connection on which merge_tags is called, and a session beside it
Merger == 1
Observer == 2

InitMerge ==
    /\ \E parents \in MergeParents : tag = MergeTags(parents)
    /\ tag_alias \in MergeAliases
    /\ content_tags_list \in MergeLinks
    /\ content = MergeContent
    /\ tx = [c \in Connections |-> NoTx]
    /\ pc = [c \in Connections |-> "idle"]
    /\ frame = [c \in Connections |-> NoFrame]
    /\ pre = NoSnapshot
    /\ observed = NoSnapshot
    /\ tag_id_seq = 1
    /\ results = <<>>
    /\ groups = <<>>
    /\ reply = NoReply

NextMerge ==
    \/ \E a \in MergeArguments : merge_tags_call(Merger, a[1], a[2])
    \/ merge_read_first(Merger)
    \/ merge_read_second(Merger)
    \/ merge_reset_ids(Merger)
    \/ merge_delete_connections(Merger)
    \/ merge_reset_alias(Merger)
    \/ merge_check_second_parent(Merger)
    \/ merge_check_first_parent(Merger)
    \/ merge_delete_first_tag(Merger)
    \/ merge_commit(Merger)
    \/ caller_commit(Merger)
    \/ caller_rollback(Merger)
    \/ observe(Merger, Observer)

SpecMerge == InitMerge /\ [][NextMerge]_vars

\* ---- merge_tags beside a session that tags content
\* connect_tag_by_id(content_id, tag_id, connection) on connection d: the
\* SELECT, the INSERT when the link is not there, and the commit. The INSERT
\* waits while another connection holds the same key uncommitted
connect_tag_by_id(d, content_id, tag_id) ==
    /\ pc[d] = "idle"
    /\ tx[d] = NoTx
    /\ LET link == [content_id |-> content_id, tag_id |-> tag_id]
       IN /\ \A c \in Connections \ {d} :
                 link \notin tx[c].link_del \cup tx[c].link_put
          /\ content_tags_list' = content_tags_list \cup {link}
          /\ results' = Append(results,
                 [conn |-> d, content_id |-> content_id, tag_id |-> tag_id,
                  inserted |-> link \notin content_tags_list, at |-> pc[Merger]])
    /\ goto(d, "returned")
    /\ UNCHANGED <<tag, tag_alias, content, tx, frame, pre, observed, groups, reply,
                   tag_id_seq>>

NextMergeTagging ==
    \/ NextMerge
    \/ \E content_id \in 1..MaxMergeContent, tag_id \in 1..3 :
           connect_tag_by_id(Observer, content_id, tag_id)

\* the stores of InitMerge without parent edges and without aliases of the
\* two tags
InitMergeTagging ==
    /\ InitMerge
    /\ tag = MergeTags(<<NULL, NULL, NULL>>)
    /\ \A a \in tag_alias : a.tag_id = 3

SpecMergeTagging == InitMergeTagging /\ [][NextMergeTagging]_vars

\* ---------------------------------------------------- registering tags
\* Stores in which tags are registered: an empty one; one with the stub
\* ("r", "content") that owns the alias "r"; one where ("r", "artist") is
\* registered with its alias; one where a tag of another category owns the
\* aliases "r" and "a_b"; one with the stub and a tag of another category
\* that owns the alias "artist:r"
RegisterStores ==
    {[tag |-> {}, tag_alias |-> {}],
     [tag |-> {[id |-> 1, title |-> <<"r">>, category |-> "content", parent |-> NULL]},
      tag_alias |-> {[tag_id |-> 1, title |-> <<"r">>]}],
     [tag |-> {[id |-> 1, title |-> <<"r">>, category |-> "artist", parent |-> NULL]},
      tag_alias |-> {[tag_id |-> 1, title |-> <<"artist:", "r">>]}],
     [tag |-> {[id |-> 1, title |-> <<"q">>, category |-> "artist", parent |-> NULL]},
      tag_alias |-> {[tag_id |-> 1, title |-> <<"r">>],
                     [tag_id |-> 1, title |-> <<"a", "_", "b">>]}],
     [tag |-> {[id |-> 1, title |-> <<"r">>, category |-> "content", parent |-> NULL],
               [id |-> 2, title |-> <<"q">>, category |-> "character", parent |-> NULL]},
      tag_alias |-> {[tag_id |-> 1, title |-> <<"r">>],
                     [tag_id |-> 2, title |-> <<"artist:", "r">>]}]}

\* (tag_name, tag_category, tag_alias) as callers pass them
RegisterArguments ==
    {<<<<"r">>, "artist", None>>,
     <<<<"r">>, "character", <<"r">>>>,
     <<<<"r">>, "content", None>>,
     <<<<"a", "_", "b">>, "content", None>>,
     <<<<"a", " ", "b">>, "content", None>>,
     <<<<"a", "_", "b", " ", "c">>, "content", None>>}

Init ==
    /\ \E s \in RegisterStores : tag = s.tag /\ tag_alias = s.tag_alias
    /\ content_tags_list = {}
    /\ content = {}
    /\ tx = [c \in Connections |-> NoTx]
    /\ pc = [c \in Connections |-> "idle"]
    /\ frame = [c \in Connections |-> NoFrame]
    /\ pre = NoSnapshot
    /\ observed = NoSnapshot
    /\ tag_id_seq = 3
    /\ results = <<>>
    /\ groups = <<>>
    /\ reply = NoReply

\* the calls begun so far
calls == Len(results) + Cardinality({c \in Connections : pc[c] # "idle"})

Next ==
    \/ \E c \in Connections, a \in RegisterArguments :
           calls < MaxCalls /\ insert_new_tag(c, a[1], a[2], a[3])
    \/ \E c \in Connections : insert_tag(c)
    \/ \E c \in Connections : tag_conflict_rollback(c)
    \/ \E c \in Connections : tag_conflict_check(c)
    \/ \E c \in Connections : insert_alias(c)
    \/ \E c \in Connections : alias_conflict_rollback(c)
    \/ \E c \in Connections : alias_conflict_info(c)
    \/ \E c \in Connections : update_category_return(c)
    \/ \E c \in Connections : insert_second_alias(c)
    \/ \E c \in Connections : commit_return(c)
    \/ \E c \in Connections : connection_commit(c)
    \/ \E c \in Connections : connection_rollback(c)

Spec == Init /\ [][Next]_vars

\* ---------------------------------------------------- looking tags up
\* check_tag_exists(tag_name, tag_category, connection): _request opens a
\* cursor and runs _check_tag_exists, two SELECTs at most
check_tag_exists(c, tag_name, tag_category) ==
    /\ pc[c] \in {"idle", "checked"}
    /\ LET ids == check_tag_exists_(view(tx[c]), tag_name, tag_category)
       IN \E id \in (IF ids = {} THEN {NULL} ELSE ids) :
              frame' = [frame EXCEPT ![c] =
                  [NoFrame EXCEPT !.tag_name = tag_name,
                                  !.tag_category = tag_category,
                                  !.tag_id = id,
                                  !.before = view(tx[c])]]
    /\ goto(c, "checked")
    /\ UNCHANGED <<store, content, tx, pre, observed, groups, reply, registry>>

\* the tag rows a store may hold when a tag is looked up: two titles in two
\* categories
LookupTags ==
    {[id |-> 1, title |-> <<"a", " ", "b">>, category |-> "content", parent |-> NULL],
     [id |-> 2, title |-> <<"a", " ", "b">>, category |-> "artist", parent |-> NULL],
     [id |-> 3, title |-> <<"q">>, category |-> "content", parent |-> NULL],
     [id |-> 4, title |-> <<"q">>, category |-> "artist", parent |-> NULL]}

\* the alias texts a store may hold: the space and the underscore form
LookupAliases == {<<"a", " ", "b">>, <<"a", "_", "b">>}

\* the names and categories a caller looks up
LookupNames == {<<"a", "_", "b">>, <<"a", " ", "b">>, <<"q">>}
LookupCategories == {"content", "artist"}

InitLookup ==
    /\ tag \in SUBSET LookupTags
    /\ tag_alias \in SUBSET [tag_id : {r.id : r \in tag}, title : LookupAliases]
    /\ \A a, b \in tag_alias : a.title = b.title => a = b
    /\ content_tags_list = {}
    /\ content = {}
    /\ tx = [c \in Connections |-> NoTx]
    /\ pc = [c \in Connections |-> "idle"]
    /\ frame = [c \in Connections |-> NoFrame]
    /\ pre = NoSnapshot
    /\ observed = NoSnapshot
    /\ tag_id_seq = 5
    /\ results = <<>>
    /\ groups = <<>>
    /\ reply = NoReply

NextLookup ==
    \E c \in Connections, n \in LookupNames, k \in LookupCategories :
        check_tag_exists(c, n, k)

SpecLookup == InitLookup /\ [][NextLookup]_vars

\* ------------------------------------------------- add_tags_for_content
\* tag[1] is None: the entry names no category and is looked up by its alias
NoneCategory == "None"

\* the session that tags a content item, and the content item
Tagger == 1
Other == 2
TaggedContent == 1

\* the call add_tags_for_content(content_id, tags, connection): its
\* arguments, the index of the entry of the loop, the statement it is at,
\* the tag id of the entry, and for every link it has inserted the tag id and
\* how the id was got: "found" by the lookup, "inserted" by insert_new_tag,
\* or "conflict" when insert_new_tag met a uniqueness conflict; before is
\* the link table when the call began
NoTagging ==
    [fn |-> "", content_id |-> NULL, tags |-> <<>>, i |-> 1, at |-> "",
     tag_id |-> NULL, log |-> <<>>, raised |-> "", before |-> {}]

add_tags_for_content(c, content_id, tags) ==
    /\ pc[c] = "idle"
    /\ reply = NoTagging
    /\ reply' = [NoTagging EXCEPT !.fn = "add_tags_for_content",
                                  !.content_id = content_id, !.tags = tags,
                                  !.at = IF tags = <<>> THEN "commit" ELSE "check",
                                  !.before = content_tags_list]
    /\ UNCHANGED <<store, content, tx, pc, frame, pre, observed, groups, registry>>

\* the lookup of one entry: check_tag_exists(tag[0], tag[1], connection), or
\* the alias lookup when tag[1] is None; then the branch on its result, up
\* to the call of insert_new_tag(tag[0], tag[1], tag[2], connection)
tags_lookup(c) ==
    /\ pc[c] = "idle"
    /\ reply.at = "check"
    /\ LET t == reply.tags[reply.i]
           ids == IF t[2] # NoneCategory
                  THEN check_tag_exists_(view(tx[c]), t[1], t[2])
                  ELSE get_tag_id_by_alias(view(tx[c]), t[3])
       IN IF ids # {}
          THEN /\ \E id \in ids : reply' = [reply EXCEPT !.tag_id = id, !.at = "link"]
               /\ UNCHANGED <<pc, frame>>
          ELSE IF t[2] # NoneCategory
          THEN /\ frame' = [frame EXCEPT ![c] =
                      [NoFrame EXCEPT !.tag_name = t[1],
                                      !.tag_category = t[2],
                                      !.tag_alias = default_alias(t[1], t[2], t[3]),
                                      !._tag_name = replace(t[1], "_", " "),
                                      !.before = seen(c)]]
               /\ goto(c, "insert_tag")
               /\ reply' = [reply EXCEPT !.at = "inserting"]
          ELSE /\ reply' = [reply EXCEPT !.at = "raised",
                                         !.raised = "Not registered tag error"]
               /\ UNCHANGED <<pc, frame>>
    /\ UNCHANGED <<store, content, tx, pre, observed, groups, registry>>

\* the last call of insert_new_tag that connection c has ended
last_result(c) ==
    LET mine == {i \in DOMAIN results : results[i].conn = c}
    IN results[CHOOSE i \in mine : \A j \in mine : j <= i]

\* cursor.execute(sql_insert_content_id_to_tag_id, (content_id, tag_id)) with
\* the id found or the id insert_new_tag returned; an exception of
\* insert_new_tag or of the INSERT ends the call
tags_link(c) ==
    /\ pc[c] = "idle"
    /\ reply.at \in {"link", "inserting"}
    /\ LET r == last_result(c)
           inserted == reply.at = "inserting"
           tag_id == IF inserted THEN r.tag_id ELSE reply.tag_id
           link == [content_id |-> reply.content_id, tag_id |-> tag_id]
           last == reply.i = Len(reply.tags)
       IN IF inserted /\ r.outcome = "raised"
          THEN /\ reply' = [reply EXCEPT !.at = "raised", !.raised = r.error]
               /\ UNCHANGED tx
          ELSE /\ \A d \in Connections \ {c} :
                      link \notin tx[d].link_put \cup tx[d].link_del
               /\ IF link \in view(tx[c]).content_tags_list
                  THEN /\ tx' = [tx EXCEPT ![c].aborted = TRUE]
                       /\ reply' = [reply EXCEPT !.at = "raised",
                                                 !.raised = "UniqueViolation"]
                  ELSE /\ tx' = [tx EXCEPT ![c].link_put = @ \cup {link}]
                       /\ reply' = [reply EXCEPT
                              !.tag_id = tag_id,
                              !.log = Append(@,
                                  [tag_id |-> tag_id,
                                   how |-> IF ~inserted THEN "found"
                                           ELSE IF r.conflict # "" THEN "conflict"
                                           ELSE "inserted"]),
                              !.i = @ + 1,
                              !.at = IF last THEN "commit" ELSE "check"]
    /\ UNCHANGED <<store, content, pc, frame, pre, observed, groups, registry>>

\* connection.commit() after the loop
tags_commit(c) ==
    /\ pc[c] = "idle"
    /\ reply.at = "commit"
    /\ commit(c)
    /\ results' = settle(results, c, "committed")
    /\ reply' = [reply EXCEPT !.at = "returned"]
    /\ UNCHANGED <<content, pc, frame, pre, observed, groups, tag_id_seq>>

\* The stores a content item is tagged in: an empty one, and one with the
\* stub ("r", "content") that owns the alias "r", the content item linked
\* to it or not
TaggingStores ==
    {[tag |-> {}, tag_alias |-> {}, content_tags_list |-> {}],
     [tag |-> {[id |-> 1, title |-> <<"r">>, category |-> "content", parent |-> NULL]},
      tag_alias |-> {[tag_id |-> 1, title |-> <<"r">>]},
      content_tags_list |-> {}],
     [tag |-> {[id |-> 1, title |-> <<"r">>, category |-> "content", parent |-> NULL]},
      tag_alias |-> {[tag_id |-> 1, title |-> <<"r">>]},
      content_tags_list |-> {[content_id |-> TaggedContent, tag_id |-> 1]}]}

\* the tag lists passed: entries (tag[0], tag[1], tag[2])
TagLists ==
    {<<>>,
     <<<<<<"x">>, "content", None>>, <<<<"r">>, "character", <<"r">>>>>>,
     <<<<<<"r">>, "content", None>>, <<<<"x">>, "content", None>>>>,
     <<<<<<"r">>, "content", None>>, <<<<"y">>, "content", None>>,
       <<<<"x">>, "content", None>>>>,
     <<<<<<"y">>, "content", None>>, <<<<"r">>, NoneCategory, <<"r">>>>>>}

\* what the other session registers meanwhile
OtherArguments ==
    {<<<<"x">>, "content", None>>, <<<<"y">>, "content", None>>}

InitTagging ==
    /\ \E s \in TaggingStores :
           tag = s.tag /\ tag_alias = s.tag_alias
               /\ content_tags_list = s.content_tags_list
    /\ content = {}
    /\ tx = [c \in Connections |-> NoTx]
    /\ pc = [c \in Connections |-> "idle"]
    /\ frame = [c \in Connections |-> NoFrame]
    /\ pre = NoSnapshot
    /\ observed = NoSnapshot
    /\ tag_id_seq = 3
    /\ results = <<>>
    /\ groups = <<>>
    /\ reply = NoTagging

\* one call of add_tags_for_content on a connection, beside calls of
\* insert_new_tag on another
NextTagging ==
    \/ \E tags \in TagLists : add_tags_for_content(Tagger, TaggedContent, tags)
    \/ tags_lookup(Tagger)
    \/ tags_link(Tagger)
    \/ tags_commit(Tagger)
    \/ \E a \in OtherArguments :
           /\ \A i \in DOMAIN results : results[i].conn # Other
           /\ insert_new_tag(Other, a[1], a[2], a[3])
    \/ \E c \in Connections : insert_tag(c)
    \/ \E c \in Connections : tag_conflict_rollback(c)
    \/ \E c \in Connections : tag_conflict_check(c)
    \/ \E c \in Connections : insert_alias(c)
    \/ \E c \in Connections : alias_conflict_rollback(c)
    \/ \E c \in Connections : alias_conflict_info(c)
    \/ \E c \in Connections : update_category_return(c)
    \/ \E c \in Connections : insert_second_alias(c)
    \/ \E c \in Connections : commit_return(c)

SpecTagging == InitTagging /\ [][NextTagging]_vars

\* ================================================================ claims
\* ---- what a search is meant to return, stated on the store directly
resolve(ref) ==
    IF ref.kind = "str" THEN get_tags_ids(tag, tag_alias, ref.s)
    ELSE get_parent_tag_ids(tag, ref.n)

resolve_group(g) == UNION {resolve(g.tags[j]) : j \in 1..Len(g.tags)}

passes_hidden(c, filter_hidden) ==
    \/ filter_hidden = "SHOW"
    \/ filter_hidden = "FILTER" /\ ~c.hidden
    \/ filter_hidden = "ONLY_HIDDEN" /\ c.hidden

linked_to_any(c, ids) ==
    \E t \in ids : [content_id |-> c.id, tag_id |-> t] \in content_tags_list

expected_rows(gs, filter_hidden) ==
    {c.id : c \in
        {x \in content :
            /\ passes_hidden(x, filter_hidden)
            /\ \A i \in 1..Len(gs) :
                   linked_to_any(x, resolve_group(gs[i])) = ~gs[i]["not"]}}

\* every reference of the group resolves to some id
resolves_nonempty(g) ==
    g.tags # <<>> /\ \A j \in 1..Len(g.tags) : resolve(g.tags[j]) # {}

\* no tag id is resolved by two references of the group
resolves_distinct(g) ==
    \A j, k \in 1..Len(g.tags) : j # k => resolve(g.tags[j]) \cap resolve(g.tags[k]) = {}

\* C7: for a list of groups whose references resolve to non-empty id sets
\* with no id resolved twice in a group, get_media_by_tags succeeds and
\* returns exactly the content rows that pass the hidden filter and are
\* linked to a tag of every positive group and to no tag of any negated group.
C7_GroupSemantics ==
    (/\ reply.fn = "get_media_by_tags"
     /\ groups # <<>>
     /\ \A i \in 1..Len(groups) :
            resolves_nonempty(groups[i]) /\ resolves_distinct(groups[i]))
    => /\ reply.raised = ""
       /\ reply.status = "ok"
       /\ reply.rows = expected_rows(groups, reply.filter_hidden)

\* a search over a positive two-reference group and a negated group, which
\* returns some rows and leaves some out
C7_Witness ==
    /\ reply.fn = "get_media_by_tags"
    /\ Len(groups) = 2
    /\ \A i \in 1..Len(groups) :
           resolves_nonempty(groups[i]) /\ resolves_distinct(groups[i])
    /\ \E i, k \in 1..2 : groups[i]["not"] /\ ~groups[k]["not"] /\ Len(groups[k].tags) = 2
    /\ reply.rows # {}
    /\ reply.rows # expected_rows(<<>>, reply.filter_hidden)

\* the placeholders the statement holds for its k-th group
group_placeholders(sql, k) ==
    LET w == parse_where(sql, 2)
        ins == SelectSeq(w.terms, LAMBDA t : t.kind = "in")
    IN IF k <= Len(ins) THEN ins[k].n ELSE NULL

\* C8: in the statement built for a list of groups that each resolve to at
\* least one id, every group has as many placeholders as distinct resolved
\* tag ids, and the statement has as many placeholders as bound parameters,
\* also when two references of a group resolve to the same id.
C8_PlaceholdersMatchIds ==
    (/\ reply.fn \in {"get_media_by_tags", "count_media_by_tags"}
     /\ \A i \in 1..Len(groups) : resolve_group(groups[i]) # {})
    => /\ reply.raised \notin {"IndexError", "TypeError"}
       /\ count_placeholders(reply.sql) = Len(reply.params)
       /\ \A i \in 1..Len(groups) :
              group_placeholders(reply.sql, i) = Cardinality(resolve_group(groups[i]))

\* C9: when some group resolves to no tag id (and no group resolves an id
\* twice) the statement is still valid, binds as many parameters as it has
\* placeholders, and returns the rows of the group semantics: none for a
\* positive empty group, nothing excluded by a negated empty group.
C9_EmptyGroupValid ==
    (/\ reply.fn = "get_media_by_tags"
     /\ \A i \in 1..Len(groups) : ~groups[i].isNone
     /\ \E i \in 1..Len(groups) : resolve_group(groups[i]) = {}
     /\ \A i \in 1..Len(groups) : resolves_distinct(groups[i]))
    => /\ count_placeholders(reply.sql) = Len(reply.params)
       /\ reply.status = "ok"
       /\ reply.rows = expected_rows(groups, reply.filter_hidden)

\* C10: with no groups the statement is valid for every hidden filter and
\* matches all content subject only to that filter; with show-all every
\* content row is returned or counted.
C10_NoGroupsMatchesAll ==
    (reply.fn # "" /\ groups = <<>>)
    => /\ reply.status = "ok"
       /\ reply.fn \in {"get_media_by_tags", "get_all_media"}
              => reply.rows = expected_rows(<<>>, reply.filter_hidden)
       /\ reply.fn \in {"count_media_by_tags", "get_total_count"}
              => reply.count = Cardinality(expected_rows(<<>>, reply.filter_hidden))

\* the search that was made, made again under the hidden filter h
same_search(h) ==
    search("get_media_by_tags", tag, tag_alias, content_tags_list, content, groups,
           reply.limit, reply.offset, reply.order_by, h, base_rows)

hidden_ids == {c.id : c \in {x \in content : x.hidden}}

\* C11: for every non-empty group list, get_media_by_tags with filter-hidden
\* returns no hidden content, with only-hidden only hidden content, with
\* show-all the union of the two; and the rows under a filter are exactly
\* the show-all rows that pass it (the clause is AND-ed to the group predicate).
C11_HiddenFilterAnded ==
    (reply.fn = "get_media_by_tags" /\ groups # <<>> /\ reply.limit = NULL) =>
        /\ reply.filter_hidden = "FILTER" => reply.rows \cap hidden_ids = {}
        /\ reply.filter_hidden = "ONLY_HIDDEN" => reply.rows \subseteq hidden_ids
        /\ reply.filter_hidden = "SHOW" =>
               reply.rows = same_search("FILTER").rows
                                \cup same_search("ONLY_HIDDEN").rows
        /\ reply.status = "ok" =>
               reply.rows = {c.id : c \in {x \in content :
                                 /\ x.id \in same_search("SHOW").rows
                                 /\ passes_hidden(x, reply.filter_hidden)}}

\* a filter-hidden search over a positive and a negated group that returns
\* rows while hidden content matches the groups too
C11_Witness ==
    /\ reply.fn = "get_media_by_tags"
    /\ Len(groups) = 2
    /\ groups[1]["not"] # groups[2]["not"]
    /\ reply.filter_hidden = "FILTER"
    /\ reply.status = "ok"
    /\ reply.rows # {}
    /\ same_search("SHOW").rows \cap hidden_ids # {}
    /\ reply.rows \cap hidden_ids = {}

RECURSIVE under(_, _, _)
\* tag t is P or has P among its ancestors, within n parent steps
under(t, P, n) ==
    \/ t = P
    \/ n > 0 /\ \E r \in tag : r.id = t /\ r.parent # NULL /\ under(r.parent, P, n - 1)

descendants_of(P) == {r.id : r \in {x \in tag : under(x.id, P, Cardinality(tag))}}

\* C12: a positive group that references tag P by integer id binds P and
\* every tag below P at any depth, and the search returns every content row
\* that passes the hidden filter and is linked to one of them, also when it
\* is linked only to a descendant.
C12_IntRefMatchesDescendants ==
    \A P \in {r.id : r \in tag} :
        (/\ reply.fn = "get_media_by_tags"
         /\ groups = <<[tags |-> <<IntRef(P)>>, not |-> FALSE, isNone |-> FALSE]>>)
        => /\ Range(reply.params) = descendants_of(P)
           /\ reply.status = "ok"
           /\ \A c \in content :
                  (/\ passes_hidden(c, reply.filter_hidden)
                   /\ linked_to_any(c, descendants_of(P)))
                  => c.id \in reply.rows

\* a search by the id of tag 1 returns a row linked only to tag 3, the child
\* of the child of tag 1, and one linked only to tag 2
C12_Witness ==
    /\ reply.fn = "get_media_by_tags"
    /\ groups = <<[tags |-> <<IntRef(1)>>, not |-> FALSE, isNone |-> FALSE]>>
    /\ \E c, d \in reply.rows :
           /\ \A l \in content_tags_list : l.content_id = c => l.tag_id = 3
           /\ \A l \in content_tags_list : l.content_id = d => l.tag_id = 2
           /\ [content_id |-> c, tag_id |-> 3] \in content_tags_list
           /\ [content_id |-> d, tag_id |-> 2] \in content_tags_list
    /\ [id |-> 3, title |-> <<"x">>, category |-> "content", parent |-> 2] \in tag

\* the search that was made, made again without limit and offset
unpaginated ==
    search("get_media_by_tags", tag, tag_alias, content_tags_list, content, groups,
           NULL, NULL, reply.order_by, reply.filter_hidden, base_rows)

date_of(id) == (CHOOSE c \in content : c.id = id).addition_date

\* C13: under a date ordering get_media_by_tags with limit L and offset O
\* returns rows O+1 .. O+L of the unpaginated result in the same order, the
\* unpaginated result being in date order; an offset without a limit is not
\* applied and the full result is returned.
C13_Pagination ==
    (reply.fn = "get_media_by_tags"
         /\ reply.order_by \in {"DATE_DECREASING", "DATE_INCREASING"}) =>
        LET full == unpaginated.list
            O == IF reply.offset = NULL THEN 0 ELSE reply.offset
            last == IF O + reply.limit > Len(full) THEN Len(full) ELSE O + reply.limit
        IN /\ \A i, j \in 1..Len(full) :
                  i < j => IF reply.order_by = "DATE_INCREASING"
                           THEN date_of(full[i]) <= date_of(full[j])
                           ELSE date_of(full[i]) >= date_of(full[j])
           /\ reply.limit # NULL =>
                  reply.list = [i \in 1..(IF last > O THEN last - O ELSE 0) |-> full[O + i]]
           /\ reply.limit = NULL => reply.list = full

\* limit 2 and offset 1 over a result of at least five rows return its
\* second and third row
C13_Witness ==
    /\ reply.fn = "get_media_by_tags"
    /\ reply.order_by = "DATE_DECREASING"
    /\ reply.limit = 2
    /\ reply.offset = 1
    /\ Len(unpaginated.list) >= 5
    /\ reply.list = <<unpaginated.list[2], unpaginated.list[3]>>

\* C14: when an entry of the group list is None, at any position, the
\* search raises and its final statement is never built or executed.
C14_NoneEntryRaises ==
    (reply.fn # "" /\ \E i \in 1..Len(groups) : groups[i].isNone) =>
        /\ reply.raised = "Exception"
        /\ reply.status = ""
        /\ reply.sql = <<>>
        /\ reply.rows = {}
        /\ reply.count = NULL

\* a search whose second entry is None, after a group with a reference
C14_Witness ==
    /\ reply.fn \in {"get_media_by_tags", "count_media_by_tags"}
    /\ Len(groups) = 2
    /\ ~groups[1].isNone
    /\ groups[1].tags # <<>>
    /\ groups[2].isNone
    /\ reply.raised = "Exception"

RECURSIVE refs_before(_, _)
\* the references in the groups before group i
refs_before(gs, i) == IF i = 1 THEN 0 ELSE refs_before(gs, i - 1) + Len(gs[i - 1].tags)

\* the group list gs with its references replaced, in order, by those of rho
relabelled(gs, rho) ==
    [i \in 1..Len(gs) |->
        [gs[i] EXCEPT !.tags = [j \in 1..Len(gs[i].tags) |-> rho[refs_before(gs, i) + j]]]]

\* hs differs from gs only in label strings and id values, and every group
\* resolves to as many ids as before
same_shape(gs, hs) ==
    \A i \in 1..Len(gs) :
        /\ \A j \in 1..Len(gs[i].tags) : hs[i].tags[j].kind = gs[i].tags[j].kind
        /\ Cardinality(resolve_group(hs[i])) = Cardinality(resolve_group(gs[i]))

\* C23: the statement text of a search depends on the shape of the request
\* only: a request that differs in label strings and id values alone, and
\* whose groups resolve to id sets of the same sizes, gets the same text
\* under the same ordering, filter, limit and offset; no token of the text
\* holds a value, and the bound parameters are the resolved ids.
C23_TextDependsOnShape ==
    (reply.fn = "get_media_by_tags" /\ reply.raised # "Exception") =>
        /\ \A rho \in [1..count_refs(groups) -> QueryRefs] :
               same_shape(groups, relabelled(groups, rho)) =>
                   requests_fabric(tag, tag_alias, relabelled(groups, rho),
                                   reply.limit, reply.offset, reply.order_by,
                                   reply.filter_hidden, base_rows).sql = reply.sql
        /\ \A k \in 1..Len(reply.sql) : reply.sql[k].s # "<int>"
        /\ Range(reply.params) = UNION {resolve_group(groups[i]) : i \in 1..Len(groups)}

\* C26: a tag reference inside a group that is neither a string nor an
\* integer makes the search fail before its final statement is issued: the
\* reference is never skipped and never takes another lookup's rows.
C26_MalformedReferenceFails ==
    (/\ reply.fn = "get_media_by_tags"
     /\ \E i \in 1..Len(groups) : \E j \in 1..Len(groups[i].tags) :
            groups[i].tags[j].kind \notin {"str", "int"})
    => /\ reply.raised # ""
       /\ reply.status = ""
       /\ reply.sql = <<>>

\* ------------------------------------------------------ merge_tags claims
loser == frame[Merger].first_tag_id
winner == frame[Merger].second_tag_id

tables(s) == <<s.tag, s.tag_alias, s.content_tags_list>>

contents_of(links, id) == {l.content_id : l \in {x \in links : x.tag_id = id}}

\* merge_tags was called with two different ids that both had a tag row
merge_of_two_tags ==
    /\ pre.at = "call"
    /\ loser # winner
    /\ \E r \in pre.tag : r.id = loser
    /\ \E r \in pre.tag : r.id = winner

merge_committed == merge_of_two_tags /\ pc[Merger] = "returned"

\* the store the merge of loser into winner is specified to leave behind
merged_store(s, l, w) ==
    <<{IF r.id = w /\ r.parent = l THEN [r EXCEPT !.parent = NULL] ELSE r :
          r \in {x \in s.tag : x.id # l}},
      {IF a.tag_id = l THEN [a EXCEPT !.tag_id = w] ELSE a : a \in s.tag_alias},
      {IF x.tag_id = l THEN [x EXCEPT !.tag_id = w] ELSE x : x \in s.content_tags_list}>>

\* C2: after merge_tags(loser, winner) commits (loser # winner, both exist,
\* no concurrent writer) no content_tags_list row has tag_id = loser and no
\* tag row has id = loser.
C2_LoserGone ==
    merge_committed =>
        /\ \A l \in content_tags_list : l.tag_id # loser
        /\ \A r \in tag : r.id # loser

\* a committed merge whose loser had links, one shared with the winner
C2_Witness ==
    /\ merge_committed
    /\ contents_of(pre.content_tags_list, loser)
           \ contents_of(pre.content_tags_list, winner) # {}
    /\ contents_of(pre.content_tags_list, loser)
           \cap contents_of(pre.content_tags_list, winner) # {}
    /\ \A l \in content_tags_list : l.tag_id # loser

\* C3: after merge_tags(loser, winner) commits, the content ids linked to
\* winner are exactly those linked to loser or to winner before the merge.
C3_WinnerHasUnion ==
    merge_committed =>
        contents_of(content_tags_list, winner) =
            contents_of(pre.content_tags_list, loser)
                \cup contents_of(pre.content_tags_list, winner)

\* a committed merge with a content tagged only loser and one tagged only winner
C3_Witness ==
    /\ merge_committed
    /\ \E c \in contents_of(pre.content_tags_list, loser) :
           /\ c \notin contents_of(pre.content_tags_list, winner)
           /\ c \in contents_of(content_tags_list, winner)
    /\ contents_of(pre.content_tags_list, winner)
           \ contents_of(pre.content_tags_list, loser) # {}

\* C4: merge_tags(loser, winner) never produces a second row (content_id,
\* winner): the rewrite never runs into the table's key, for content linked
\* to both tags the loser row is deleted and no row is rewritten, and after
\* the merge that content has its one link to winner.
C4_NoDuplicateWinnerLink ==
    merge_of_two_tags =>
        /\ frame[Merger].error # "UniqueViolation"
        /\ \A c \in contents_of(pre.content_tags_list, loser)
                      \cap contents_of(pre.content_tags_list, winner) :
               LET lrow == [content_id |-> c, tag_id |-> loser]
                   wrow == [content_id |-> c, tag_id |-> winner]
               IN /\ wrow \notin tx[Merger].link_put
                  /\ pc[Merger] \in {"merge_reset_alias", "merge_check_second_parent",
                                     "merge_check_first_parent",
                                     "merge_delete_first_tag", "merge_commit"}
                         => lrow \in tx[Merger].link_del
                  /\ pc[Merger] = "returned"
                         => Cardinality({l \in content_tags_list :
                                l.content_id = c /\ l.tag_id \in {loser, winner}}) = 1

\* a committed merge with a content that was linked to both tags
C4_Witness ==
    /\ merge_committed
    /\ \E c \in contents_of(pre.content_tags_list, loser)
                  \cap contents_of(pre.content_tags_list, winner) :
           [content_id |-> c, tag_id |-> winner] \in content_tags_list

\* C5: merge_tags is atomic for other sessions: whatever another session
\* reads while the merge of two different ids runs or after it returned is
\* the complete pre-merge state or, once the merge returned, the complete
\* post-merge state; nothing of the merge is visible before its final commit.
C5_AtomicForObservers ==
    (pre.at = "call" /\ loser # winner /\ observed.at = "seen"
         /\ pc[Merger] # "closed") =>
        \/ tables(observed) = tables(pre)
        \/ /\ pc[Merger] = "returned"
           /\ tables(observed) = merged_store(pre, loser, winner)

\* another session read the tables while the merge held link rewrites, link
\* deletions and alias reassignments uncommitted
C5_Witness ==
    /\ merge_of_two_tags
    /\ pc[Merger] = "merge_commit"
    /\ tx[Merger].link_put # {}
    /\ tx[Merger].link_del # {}
    /\ tx[Merger].alias_put # {}
    /\ observed.at = "seen"
    /\ tables(observed) = tables(pre)
    /\ tables(pre) # merged_store(pre, loser, winner)

\* C6: when merge_tags fails part-way, the store is left unchanged: nothing
\* the failed merge wrote is persisted, also when the caller afterwards
\* commits on the same connection.
C6_FailedMergeLeavesStore ==
    (pre.at = "call" /\ frame[Merger].error # "" /\ pc[Merger] = "closed") =>
        <<tag, tag_alias, content_tags_list>> = tables(pre)

aliases_of(A, id) == {a.title : a \in {x \in A : x.tag_id = id}}

\* C24: after merge_tags(loser, winner) commits, every tag_alias row that
\* pointed at loser points at winner with its title unchanged, winner's
\* aliases are those of both tags, no alias row is lost or added, and no
\* tag_alias row references loser.
C24_AliasesMoved ==
    merge_committed =>
        /\ \A a \in pre.tag_alias :
               a.tag_id = loser => [a EXCEPT !.tag_id = winner] \in tag_alias
        /\ aliases_of(tag_alias, winner)
               = aliases_of(pre.tag_alias, loser) \cup aliases_of(pre.tag_alias, winner)
        /\ {a.title : a \in tag_alias} = {a.title : a \in pre.tag_alias}
        /\ Cardinality(tag_alias) = Cardinality(pre.tag_alias)
        /\ \A a \in tag_alias : a.tag_id # loser

\* a committed merge of two tags that each had an alias
C24_Witness ==
    /\ merge_committed
    /\ aliases_of(pre.tag_alias, loser) # {}
    /\ aliases_of(pre.tag_alias, winner) # {}
    /\ aliases_of(pre.tag_alias, loser) \subseteq aliases_of(tag_alias, winner)
    /\ aliases_of(pre.tag_alias, winner) \subseteq aliases_of(tag_alias, winner)

\* C25: after merge_tags(loser, winner) commits, no remaining tag has
\* parent = loser: every remaining tag's parent is null or the id of an
\* existing tag.
C25_ParentsMigrated ==
    merge_committed =>
        \A r \in tag :
            /\ r.parent # loser
            /\ r.parent = NULL \/ \E p \in tag : p.id = r.parent

\* C29: merge_tags called with the same id twice, the id of an existing
\* tag, deletes every content_tags_list row of that tag and the tag row: the
\* content that was tagged with it is left without that tag, the other rows
\* of content_tags_list stay.
C29_SelfMergeDeletes ==
    (pre.at = "call" /\ loser = winner /\ pc[Merger] = "returned") =>
        /\ \A r \in tag : r.id # loser
        /\ content_tags_list = {l \in pre.content_tags_list : l.tag_id # loser}
        /\ \A c \in contents_of(pre.content_tags_list, loser) :
               c \notin contents_of(content_tags_list, winner)

\* a tag with two links was merged into itself
C29_Witness ==
    /\ pre.at = "call"
    /\ loser = winner
    /\ pc[Merger] = "returned"
    /\ Cardinality(contents_of(pre.content_tags_list, loser)) >= 2
    /\ contents_of(content_tags_list, loser) = {}
    /\ \E r \in pre.tag : r.id = loser
    /\ \A r \in tag : r.id # loser

\* the rows of the tables s that belong to neither of the ids l and w
outside(s, l, w) ==
    <<{x \in s.content_tags_list : x.tag_id \notin {l, w}},
      {a \in s.tag_alias : a.tag_id \notin {l, w}},
      {r \in s.tag : r.id \notin {l, w}}>>

C27_MergeBesideTagging ==
    (/\ merge_of_two_tags
     /\ pc[Merger] \in {"returned", "closed"}
     /\ \E i \in DOMAIN results :
            /\ results[i].inserted
            /\ results[i].tag_id \in {loser, winner}
            /\ results[i].at \in {"merge_reset_ids", "merge_delete_connections",
                                  "merge_reset_alias", "merge_check_second_parent",
                                  "merge_check_first_parent", "merge_delete_first_tag",
                                  "merge_commit"})
    => /\ \A l \in content_tags_list : l.tag_id # loser
       /\ frame[Merger].error # "UniqueViolation"

\* --------------------------------------------------- insert_new_tag claims
\* ---- insert_new_tag, call by call
\* the call results[i] ended last, no other connection has called, and what
\* it returned was not rolled back by the caller: the connection reads the
\* tables as the call left them
at_return(i) ==
    /\ i = Len(results)
    /\ \A j \in DOMAIN results : results[j].conn = results[i].conn
    /\ \A c \in Connections : pc[c] = "idle"
    /\ results[i].outcome = "returned" => results[i].fate # "undone"

\* the tables as the caller of results[i] reads them
left(i) == seen(results[i].conn)

\* the tag rows that own the alias text of the call when it was made
owners(i) ==
    {r \in results[i].before.tag :
        \E a \in results[i].before.tag_alias :
            a.title = results[i].tag_alias /\ a.tag_id = r.id}

\* the alias insert of the call failed on the uniqueness of the alias text
alias_conflict(i) == results[i].conflict = "IntegrityError"

space_form(alias) == replace(alias, "_", " ")
underscore_form(alias) == replace(alias, " ", "_")

\* C15: after a call insert_new_tag that returned and whose chosen alias
\* contains a space or an underscore, the alias with every underscore as a
\* space and the alias with every space as an underscore are both rows of
\* tag_alias bound to the returned id: get_tag_id_by_alias gives that id for
\* either form.
C15_BothAliasForms ==
    \A i \in DOMAIN results :
        (/\ at_return(i)
         /\ results[i].outcome = "returned"
         /\ contains(results[i].tag_alias, " ") \/ contains(results[i].tag_alias, "_"))
        => /\ get_tag_id_by_alias(left(i), space_form(results[i].tag_alias))
                  = {results[i].tag_id}
           /\ get_tag_id_by_alias(left(i), underscore_form(results[i].tag_alias))
                  = {results[i].tag_id}

\* the stub of C16 in the tables V: the only row titled "r", of category
\* "content", owner of the alias "r"
stub_in(V) ==
    {r \in V.tag : /\ r.title = <<"r">> /\ r.category = "content"
                   /\ [tag_id |-> r.id, title |-> <<"r">>] \in V.tag_alias
                   /\ \A x \in V.tag : x.title = <<"r">> => x = r}

\* C16: when the stub ("r", "content") with alias "r" exists, the call
\* insert_new_tag("r", "artist", None) returns the stub's id, the stub's
\* category becomes "artist", and exactly one tag row is titled "r".
C16_StubUpgraded ==
    \A i \in DOMAIN results :
        (/\ at_return(i)
         /\ results[i]._tag_name = <<"r">>
         /\ results[i].tag_category = "artist"
         /\ results[i].tag_alias = <<"artist:", "r">>
         /\ stub_in(results[i].before) # {})
        => \A stub \in stub_in(results[i].before) :
               /\ results[i].outcome = "returned"
               /\ results[i].tag_id = stub.id
               /\ {r \in left(i).tag : r.title = <<"r">>}
                      = {[stub EXCEPT !.category = "artist"]}

\* C17: when the alias insert of insert_new_tag fails because the alias
\* text is bound to another tag, the owner of that alias text decides the
\* call: a "content" owner gets the requested category and its id is
\* returned; any other owner's id is returned to a "content" request; the
\* call raises otherwise; and no tag row is left that was not there before.
C17_OwnerOfConflictingAlias ==
    \A i \in DOMAIN results :
        (at_return(i) /\ alias_conflict(i)) =>
            /\ owners(i) # {}
            /\ \A o \in owners(i) :
                   /\ o.category = "content" =>
                          /\ results[i].outcome = "returned"
                          /\ results[i].tag_id = o.id
                          /\ [o EXCEPT !.category = results[i].tag_category]
                                 \in left(i).tag
                   /\ (o.category # "content" /\ results[i].tag_category = "content") =>
                          /\ results[i].outcome = "returned"
                          /\ results[i].tag_id = o.id
                   /\ (o.category # "content" /\ results[i].tag_category # "content") =>
                          results[i].outcome = "raised"
            /\ {r.id : r \in left(i).tag} \subseteq {r.id : r \in results[i].before.tag}

\* C18: when insert_new_tag is called with category "content" and its alias
\* is owned by a tag of another category, the call returns the owner's id
\* and the tag and alias tables are as before the call: no new tag row, the
\* owner's title, category, parent and aliases unchanged.
C18_ContentCallKeepsOwner ==
    \A i \in DOMAIN results :
        (/\ at_return(i)
         /\ alias_conflict(i)
         /\ results[i].tag_category = "content"
         /\ \E o \in owners(i) : o.category # "content")
        => /\ results[i].outcome = "returned"
           /\ {results[i].tag_id} = {o.id : o \in owners(i)}
           /\ left(i).tag = results[i].before.tag
           /\ left(i).tag_alias = results[i].before.tag_alias

\* C19: when the alias of insert_new_tag is owned by a tag whose category is
\* not "content" and the requested category is not "content", the call
\* raises the integrity error and the tag and alias tables are as before the
\* call: no row for the requested (title, category), no new alias, the owner
\* unmodified.
C19_CollisionRaises ==
    \A i \in DOMAIN results :
        (/\ at_return(i)
         /\ alias_conflict(i)
         /\ results[i].tag_category # "content"
         /\ \E o \in owners(i) : o.category # "content")
        => /\ results[i].outcome = "raised"
           /\ results[i].error = "IntegrityError"
           /\ left(i).tag = results[i].before.tag
           /\ left(i).tag_alias = results[i].before.tag_alias

\* the other form of the alias: with " " if it has one, every " " as "_",
\* else every "_" as " "
swapped(alias) ==
    IF contains(alias, " ") THEN underscore_form(alias) ELSE space_form(alias)

\* C20: when the tag and the chosen alias of a call insert_new_tag are new
\* and the alias with space and underscore swapped is already a row of
\* tag_alias, the call returns the new tag's id without raising, and the new
\* tag row and its primary alias are committed.
C20_SecondAliasIgnored ==
    \A i \in DOMAIN results :
        (/\ at_return(i)
         /\ swapped(results[i].tag_alias) # results[i].tag_alias
         /\ get_tag_id_by_alias(results[i].before, swapped(results[i].tag_alias)) # {}
         /\ get_tag_id_by_alias(results[i].before, results[i].tag_alias) = {}
         /\ \A r \in results[i].before.tag :
                ~(r.title = results[i]._tag_name
                      /\ r.category = results[i].tag_category))
        => /\ results[i].outcome = "returned"
           /\ \E r \in tag : /\ r.id = results[i].tag_id
                             /\ r.title = results[i]._tag_name
                             /\ r.category = results[i].tag_category
           /\ [tag_id |-> results[i].tag_id, title |-> results[i].tag_alias] \in tag_alias

\* C1: any two calls insert_new_tag with the same (normalized title,
\* category) that return, and whose writes the caller did not roll back,
\* return the same tag id; a call that hits the tag
\* uniqueness conflict returns an id and does not raise the duplicate-tag
\* error; and no two tag rows, committed or in a connection's view, have the
\* same (title, category).
C1_SameTagSameId ==
    /\ \A i, j \in DOMAIN results :
           (/\ results[i]._tag_name = results[j]._tag_name
            /\ results[i].tag_category = results[j].tag_category
            /\ results[i].outcome = "returned" /\ results[i].fate # "undone"
            /\ results[j].outcome = "returned" /\ results[j].fate # "undone")
               => results[i].tag_id = results[j].tag_id
    /\ \A i \in DOMAIN results :
           results[i].conflict = "UniqueViolation" => results[i].outcome = "returned"
    /\ \A c \in Connections : \A r1, r2 \in view(tx[c]).tag :
           (r1.title = r2.title /\ r1.category = r2.category) => r1 = r2

\* C21: every call insert_new_tag that returned a tag id left nothing
\* uncommitted: the new tag and its aliases, or the category upgrade of the
\* stub, were committed by the call itself, before it returned.
C21_CommitsBeforeReturn ==
    \A i \in DOMAIN results :
        results[i].outcome = "returned" => results[i].fate = "committed"

\* C22: check_tag_exists(title, category) returns the id of the tag whose
\* stored title is the title with every "_" as a space and whose category is
\* the given one; if there is none, the id of the tag of the given category
\* that owns the alias equal to that looked-up label; None otherwise. The
\* tag returned is of the given category and the store is as it was.
C22_CheckTagExists ==
    \A c \in Connections :
        pc[c] = "checked" =>
            LET f == frame[c]
                label == space_form(f.tag_name)
                by_title == {r \in tag : r.title = label /\ r.category = f.tag_category}
                by_alias == {r \in tag : /\ r.category = f.tag_category
                                         /\ [tag_id |-> r.id, title |-> label] \in tag_alias}
            IN /\ by_title # {} => f.tag_id \in {r.id : r \in by_title}
               /\ (by_title = {} /\ by_alias # {}) => f.tag_id \in {r.id : r \in by_alias}
               /\ (by_title = {} /\ by_alias = {}) => f.tag_id = NULL
               /\ f.tag_id # NULL => \E r \in tag : r.id = f.tag_id
                                                    /\ r.category = f.tag_category
               /\ f.before.tag = tag
               /\ f.before.tag_alias = tag_alias
               /\ f.before.content_tags_list = content_tags_list
               /\ \A d \in Connections : tx[d] = NoTx

\* a name with an underscore is found through the alias in its space form,
\* while a tag of the other category bears the title; another lookup finds
\* nothing
C22_Witness ==
    \E c, d \in Connections :
        /\ pc[c] = "checked"
        /\ pc[d] = "checked"
        /\ frame[c].tag_name = <<"a", "_", "b">>
        /\ frame[c].tag_category = "content"
        /\ frame[c].tag_id = 3
        /\ [id |-> 2, title |-> <<"a", " ", "b">>, category |-> "artist", parent |-> NULL]
               \in tag
        /\ [tag_id |-> 3, title |-> <<"a", " ", "b">>] \in tag_alias
        /\ frame[d].tag_name = <<"q">>
        /\ frame[d].tag_category = "artist"
        /\ frame[d].tag_id = NULL

\* ---- add_tags_for_content and the transaction of its connection
\* the link the call inserted for the k-th entry it has passed
link_of(k) == [content_id |-> reply.content_id, tag_id |-> reply.log[k].tag_id]

\* the entries after the k-th for which insert_new_tag was called
later_calls(k) == {j \in DOMAIN reply.log : j > k /\ reply.log[j].how # "found"}

\* how the first call of insert_new_tag after the k-th link ended
next_call(k) ==
    reply.log[CHOOSE j \in later_calls(k) : \A h \in later_calls(k) : j <= h].how

durable(k) == later_calls(k) # {} /\ next_call(k) = "inserted"
discarded(k) == later_calls(k) # {} /\ next_call(k) = "conflict"
pending(k) == later_calls(k) = {}

\* C28: insert_new_tag ends the transaction of the whole connection. While
\* add_tags_for_content runs and after it has returned, the links it inserted
\* for earlier entries are committed exactly when the next call of
\* insert_new_tag after them succeeded (its commit published them) or, at the
\* return, when no call followed them (the final commit published them); they
\* are gone when that next call met a tag or alias conflict (its rollback
\* discarded them); only the links after the last call are still uncommitted.
C28_WholeTransaction ==
    (/\ reply.fn = "add_tags_for_content"
     /\ pc[Tagger] = "idle"
     /\ reply.at \in {"check", "link", "commit", "returned"})
    => LET passed == DOMAIN reply.log
           open == {k \in passed : pending(k)}
           kept == {k \in passed : durable(k)}
           done == reply.at = "returned"
       IN /\ content_tags_list =
                 reply.before \cup {link_of(k) : k \in kept \cup (IF done THEN open ELSE {})}
          /\ tx[Tagger].link_put = (IF done THEN {} ELSE {link_of(k) : k \in open})
          /\ tx[Tagger].link_del = {}

\* add_tags_for_content has returned normally; the link of one earlier entry
\* was published by the commit of a later insert_new_tag, and the link of
\* another is missing because a later insert_new_tag rolled back
C28_Witness ==
    /\ reply.fn = "add_tags_for_content"
    /\ reply.at = "returned"
    /\ \E k \in DOMAIN reply.log : durable(k) /\ link_of(k) \in content_tags_list
    /\ \E k \in DOMAIN reply.log : discarded(k) /\ link_of(k) \notin content_tags_list

====
